---- MODULE Spec2Model ----
(***************************************************************************)
(* A model of pathvis (path_traceroute): the supervisor loop that keeps a  *)
(* fleet of per-destination tracers, the websocket publisher that pushes   *)
(* their histories to subscribers, the per-destination tracer loop, and    *)
(* the hop-enrichment cache.                                               *)
(*                                                                         *)
(* All tasks run on one asyncio event loop: a step of the model is the     *)
(* code a task runs from one suspension point (await) to the next.         *)
(***************************************************************************)
EXTENDS Integers, Sequences, FiniteSets, TLC

\* ------------------------------------------------------------------ bounds

\* supervisor ticks (iterations of main_loop's while) that are explored
MaxTicks == 3
\* tracer objects created over a run
MaxTracers == 2
\* trace records (other than sentinels) appended to histories over a run
MaxRecords == 1
\* frames one subscriber is sent
MaxFrames == 4

\* the same two bounds where the order of one tracer's records is explored
MaxOrderRecords == 2
MaxOrderFrames == 5

\* how many iterations of a tracer whose probes' exit codes are followed
MaxExitIterations == 3

\* how many cycle_protocol calls of one tracer are followed
MaxSelections == 8
\* the lengths of the probe results that are tried
TraceLengths == 0..2
\* hop_info calls over a run
MaxCalls == 3
\* seconds that pass while the cache is used
MaxTime == 3
\* the reader's max_items: entries the reverse-name store may hold
MaxItems == 2
\* iterations of one tracer's loop when back-off is followed
MaxBackoffIterations == 4
\* iterations of one tracer's loop
MaxIterations == 2

\* remote addresses that can show up in a destination snapshot
Dests == {"8.8.8.8", "1.1.1.1"}
\* port tuples a snapshot can hold for an address
SnapPorts == {<<"443">>, <<"80">>}
\* subscriber connections
Subs == {"ws1"}

\* the connections there can be; those outside Subs stay unconnected unless
\* a specification connects them
AllSubs == {"ws1", "ws2"}

\* the ticks, frames and records followed where two subscribers are
MaxSendTicks == 2
MaxSendFrames == 3
MaxSendRecords == 1

\* the ticks, frames and records followed where the tasks are scheduled fairly
MaxLiveTicks == 3
MaxLiveFrames == 5
MaxLiveRecords == 1

\* the hop_info calls of the handler that is followed through its enrichments
MaxEnrichCalls == 2

\* the days over which the ROA file ages
MaxDay == 15

\* ------------------------------------------------------------- variables

VARIABLES
    tracers,          \* every tracer object created so far, by identity
    active_tracers,   \* main_loop's list active_tracers (ids into tracers)
    sup,              \* main_loop's locals and its position
    ws,               \* the WebsocketServer object's fields
    clock,            \* get_utc_time(), as a counter
    subs              \* per connection: websocket_handler's locals, position, frames sent

sup_vars == <<tracers, active_tracers, sup, ws, clock, subs>>

VARIABLES
    tracer,           \* one TracerouteTracer object's fields
    task,             \* its task: _loop's locals and where it is suspended
    now               \* time.time(), in seconds

tracer_vars == <<tracer, task>>

VARIABLES
    hop_cache,        \* node_info.hop_cache: ip -> cached record
    hop_cache_expire, \* node_info.hop_cache_expire: expiry time -> list of ips
    calls,            \* the hop_info calls suspended at `await info_thread`
    returned,         \* how many calls were made, and what the last return was
    looked_up         \* what the get_info that ended last for an ip came to

cache_vars == <<hop_cache, hop_cache_expire, calls, returned, looked_up>>

VARIABLES
    sampler,          \* the last call of netstat.active_remote_hosts
    resolve_dict,     \* reverse_query_lookup.resolve_dict, oldest entry first
    recorded,         \* what the reader's last pass did, and every ip's last names
    troute,           \* the traceroute module: IS_PRIVILEGED and the last calls
    cycle,            \* one TracerouteTracer's cycle_protocols and what it chose
    child,            \* the last traceroute child: its exit code, and whether trace raised
    enrich,           \* one subscriber's handler in send_trace, and the last get_info it asked for
    roa,              \* the vrps.json file, the day, and the last construction of ROAChecker
    race              \* the reader thread's position in one pass, and the last lookup beside it

unit_vars == <<sampler, resolve_dict, recorded, troute, cycle, child, enrich, roa, race>>

vars == <<sup_vars, tracer_vars, now, cache_vars, unit_vars>>

\* ------------------------------------------------------------- helpers

\* get_local_ip(): the address of the local egress interface
LocalIp == "192.0.2.1"

Addrs == Dests \cup {LocalIp}

Range(s) == {s[k] : k \in DOMAIN s}

Last(s) == s[Len(s)]

\* (mutant) nothing is dropped
ListRemove_Keep(s, x) == s

\* list.remove(x): drop the first element equal to x
RECURSIVE ListRemove(_, _)
ListRemove(s, x) ==
    IF s = <<>> THEN <<>>
    ELSE IF Head(s) = x THEN Tail(s)
    ELSE <<Head(s)>> \o ListRemove(Tail(s), x)

\* sum([t.history for t in lst], [])
RECURSIVE ConcatHistories(_, _)
ConcatHistories(trs, lst) ==
    IF lst = <<>> THEN <<>>
    ELSE trs[Head(lst)].history \o ConcatHistories(trs, Tail(lst))

\* A destination snapshot is a dict; the model keeps it as the sequence of its
\* items in iteration order: records [addr, ports] with distinct addrs.
SnapshotsOver(A, P) ==
    UNION {
        {s \in [1..n -> [addr : A, ports : P]] :
            \A a, b \in 1..n : a # b => s[a].addr # s[b].addr}
        : n \in 0..Cardinality(A)}

\* the snapshots the supervisor is explored with on its own
Snapshots == SnapshotsOver(Addrs, SnapPorts)

\* the snapshots the supervisor is given when the publisher runs beside it
PubSnapshots == SnapshotsOver(Dests, {<<"443">>})

SnapKeys(snap) == {snap[k].addr : k \in DOMAIN snap}

SnapItems(snap) == {<<snap[k].addr, snap[k].ports>> : k \in DOMAIN snap}

SnapGet(snap, addr) == (CHOOSE k \in DOMAIN snap : snap[k].addr = addr)

\* reverse_query_lookup: the keys of the store, in its order
StoredIps(d) == [k \in DOMAIN d |-> d[k].ip]

\* reverse_query_lookup.lookup, lines 104-105: resolve_dict.get(ip, [])
Lookup(d, ip) ==
    IF ip \in Range(StoredIps(d))
    THEN (CHOOSE item \in Range(d) : item.ip = ip).names
    ELSE <<>>

\* ------------------------------------------------------------- tracer objects

\* Tracer.__init__ followed by main_loop's lines 68-73: cnames read from the
\* reverse-name store, dports installed, appended to the fleet, start() called.  The task's first step
\* (astart sets running and enters _loop up to its first await) runs while
\* main_loop sleeps 50 ms, before anything else can observe the tracer.
NewTracer(addr, ports) ==
    [destination |-> addr,
     cnames      |-> Lookup(resolve_dict, addr),
     dports      |-> ports,
     dports_from |-> addr,      \* the snapshot key dports was last read from
     running     |-> TRUE,
     task        |-> "loop",
     history     |-> <<>>]

\* a Trace namedtuple, as far as the publisher's bookkeeping reads it
TraceRec(start, dest, sentinel) ==
    [start |-> start, destination |-> dest, sentinel |-> sentinel]

NumRecords(trs) ==
    Cardinality(UNION {{<<t, k>> : k \in {j \in DOMAIN trs[t].history :
                                              ~trs[t].history[j].sentinel}} :
                       t \in DOMAIN trs})

\* ------------------------------------------------------------- supervisor

\* (mutant) every address is taken for new
AlreadyActive_Never(addr, active_destinations) == FALSE

\* line 64: addr in active_destinations
AlreadyActive(addr, active_destinations) == addr \in active_destinations

\* line 78: tracer.destination not in _active_remote_hosts
NotInSnapshot(dest, snap) == dest \notin SnapKeys(snap)

\* lines 65-66: the dports update for an address that already has a tracer.
\* `tracer` is the loop's variable: the tracer created last in this tick, or
\* None (0) when none was created yet.
UpdateDports(trs, last_created, addr, ports) ==
    IF last_created # 0
    THEN [trs EXCEPT ![last_created].dports = ports, ![last_created].dports_from = addr]
    ELSE trs

\* lines 82-84: the assertion, update_tracers, and the sleep that follows
Post(m) ==
    IF Range(m.sup.removed) \cap Range(m.fleet) # {}
    THEN [m EXCEPT !.sup.pc = "failed"]
    ELSE [m EXCEPT !.sup.pc = "sleep",
                   \* the loop variables are dead until the next tick sets them
                   !.sup.i = 1, !.sup.j = 1, !.sup.tracer = 0, !.sup.stopping = 0,
                   !.sup.active_destinations = {},
                   !.ws = [posted |-> TRUE, removed_tracers |-> m.sup.removed,
                           posts |-> m.ws.posts + 1]]

\* lines 77-81: `for tracer in active_tracers`, from the list iterator's index
\* j on, up to the next `await tracer.stop()` or the end of the list.  The
\* iterator reads position j of the list as it is now.
RECURSIVE RemoveLoop(_)
RemoveLoop(m) ==
    IF m.sup.j > Len(m.fleet) THEN Post(m)
    ELSE LET t == m.fleet[m.sup.j] IN
         IF NotInSnapshot(m.tracers[t].destination, m.sup.snap)
         THEN [m EXCEPT !.fleet = ListRemove(@, t),
                        !.sup.removed = Append(@, t),
                        !.sup.j = @ + 1,
                        !.sup.pc = "stopping",
                        !.sup.stopping = t,
                        \* stop() runs _stop() before it awaits the task
                        !.tracers[t].running = FALSE]
         ELSE RemoveLoop([m EXCEPT !.sup.j = @ + 1])

\* lines 61-74: `for addr in _active_remote_hosts`, from item i on, up to the
\* next `await asyncio.sleep(0.05)` or into the removal loop.
RECURSIVE AddLoop(_)
AddLoop(m) ==
    IF m.sup.i > Len(m.sup.snap)
    THEN RemoveLoop([m EXCEPT !.sup.j = 1, !.sup.removed = <<>>])
    ELSE LET addr  == m.sup.snap[m.sup.i].addr
             ports == m.sup.snap[m.sup.i].ports
             nxt   == [m EXCEPT !.sup.i = @ + 1]
         IN  IF addr = LocalIp THEN AddLoop(nxt)
             ELSE IF AlreadyActive(addr, m.sup.active_destinations)
             THEN AddLoop([nxt EXCEPT
                      !.tracers = UpdateDports(@, m.sup.tracer, addr, ports)])
             ELSE [nxt EXCEPT !.tracers = Append(@, NewTracer(addr, ports)),
                              !.fleet = Append(@, Len(m.tracers) + 1),
                              !.sup.tracer = Len(m.tracers) + 1,
                              !.sup.created = @ + 1,
                              !.sup.pc = "add_sleep"]

\* how many tracers a tick with this snapshot creates
NumNew(snap, active_destinations) ==
    Cardinality({k \in DOMAIN snap :
        snap[k].addr # LocalIp /\ ~AlreadyActive(snap[k].addr, active_destinations)})

Machine == [tracers |-> tracers, fleet |-> active_tracers, sup |-> sup, ws |-> ws]

SetMachine(m) ==
    /\ tracers' = m.tracers
    /\ active_tracers' = m.fleet
    /\ sup' = m.sup
    /\ ws' = m.ws

\* (mutant) the fleet's destinations are not looked at
ActiveDestinations_Empty(trs, fleet) == {}

\* line 59: active_destinations = [t.destination for t in active_tracers]
ActiveDestinations(trs, fleet) == {trs[t].destination : t \in Range(fleet)}

\* lines 57-60 and on: one iteration of `while running` begins
SupTick(snapshots) ==
    /\ sup.pc = "sleep"
    /\ sup.tick < MaxTicks
    /\ \E snap \in snapshots :
        LET dests == ActiveDestinations(tracers, active_tracers) IN
        /\ Len(tracers) + NumNew(snap, dests) <= MaxTracers
        /\ SetMachine(AddLoop([Machine EXCEPT
               !.sup.snap = snap,
               !.sup.active_destinations = dests,
               !.sup.tracer = 0,
               !.sup.i = 1,
               !.sup.tick = @ + 1,
               !.sup.created = 0,
               !.sup.removed = <<>>,
               !.sup.fleet0 = active_tracers,
               !.sup.prev_items = SnapItems(sup.snap),
               !.sup.prev_complete =
                   /\ sup.tick >= 1
                   /\ \A t \in Range(active_tracers) :
                          tracers[t].destination \in SnapKeys(sup.snap)]))
    /\ UNCHANGED <<clock, subs>>

\* line 74: the 50 ms sleep after tracer.start() is over
SupAfterStart ==
    /\ sup.pc = "add_sleep"
    /\ SetMachine(AddLoop(Machine))
    /\ UNCHANGED <<clock, subs>>

\* line 81: `await tracer.stop()` returns once the tracer's task has ended
SupAfterStop ==
    /\ sup.pc = "stopping"
    /\ tracers[sup.stopping].task = "done"
    /\ SetMachine(RemoveLoop(Machine))
    /\ UNCHANGED <<clock, subs>>

\* line 87, the first step of every stop() that gather runs: _stop() of each
\* tracer in active_tracers
StopAll(trs, fleet) ==
    [t \in DOMAIN trs |->
        IF t \in Range(fleet) THEN [trs[t] EXCEPT !.running = FALSE] ELSE trs[t]]

\* main_loop's task is cancelled (task.cancel()).  Suspended in one of its
\* two sleeps, it gets CancelledError there and the handler of lines 85-88
\* runs up to its await of gather.  Suspended in `await tracer.stop()`, that
\* is in `await self._task`, the cancellation goes to the tracer's task,
\* whose astart catches it and returns (tracer.py lines 61-63): the awaited
\* task has ended without an error, stop() returns and main_loop goes on.
SupCancel ==
    /\ ~sup.cancelled
    /\ \/ /\ sup.pc \in {"sleep", "add_sleep"}
          /\ SetMachine([Machine EXCEPT !.sup.pc = "shutdown",
                                        !.sup.cancelled = TRUE,
                                        !.tracers = StopAll(@, active_tracers)])
       \/ /\ sup.pc = "stopping"
          /\ tracers[sup.stopping].task = "loop"
          /\ SetMachine(RemoveLoop([Machine EXCEPT
                 !.sup.cancelled = TRUE,
                 !.tracers[sup.stopping].task = "cancelled"]))
    /\ UNCHANGED <<clock, subs>>

\* line 87: gather returns when the task of every tracer it stopped is over
SupShutdownDone ==
    /\ sup.pc = "shutdown"
    /\ \A t \in Range(active_tracers) : tracers[t].task # "loop"
    /\ sup' = [sup EXCEPT !.pc = "ended"]
    /\ UNCHANGED <<tracers, active_tracers, ws, clock, subs>>

\* ------------------------------------------------------------- tracer tasks

\* Tracer._loop, lines 135-136: an accepted trace is appended to the history
TracerAppend(t, max_records) ==
    /\ tracers[t].task = "loop"
    /\ tracers[t].running
    /\ NumRecords(tracers) < max_records
    /\ tracers' = [tracers EXCEPT ![t].history =
                      Append(@, TraceRec(clock, tracers[t].destination, FALSE))]
    /\ clock' = clock + 1
    /\ UNCHANGED <<active_tracers, sup, ws, subs>>

\* Tracer._loop after stop(): the task wakes up with running false; a probe
\* that was in flight may still yield one record; the loop ends and the
\* sentinel is appended (line 142).
TracerEnd(t, max_records) ==
    /\ tracers[t].task = "loop"
    /\ ~tracers[t].running
    /\ \E late \in BOOLEAN :
        /\ late => NumRecords(tracers) < max_records
        /\ LET d == tracers[t].destination
               h == IF late THEN Append(tracers[t].history, TraceRec(clock, d, FALSE))
                    ELSE tracers[t].history
               c == IF late THEN clock + 1 ELSE clock
           IN  /\ tracers' = [tracers EXCEPT
                      ![t].history = Append(h, TraceRec(c, d, TRUE)),
                      ![t].task = "done"]
               /\ clock' = c + 1
    /\ UNCHANGED <<active_tracers, sup, ws, subs>>

\* ------------------------------------------------------------- publisher

\* what ws.active_tracers refers to: WebsocketServer.__init__'s own empty list
\* until update_tracers is first called, main_loop's list object afterwards
WsActive == IF ws.posted THEN active_tracers ELSE <<>>

\* a frame as the subscriber sees it; `post` records how many times
\* update_tracers had been called when the frame was sent
Frame(rec, new) ==
    [kind |-> "trace", start |-> rec.start, destination |-> rec.destination,
     new |-> new, sentinel |-> rec.sentinel, post |-> ws.posts]

\* (mutant) the connection opens with an empty trace frame
ClearCache_AsTrace ==
    [kind |-> "trace", start |-> 0, destination |-> "", new |-> FALSE,
     sentinel |-> FALSE, post |-> ws.posts]

\* line 67: the literal text clear_cache
ClearCache ==
    [kind |-> "clear_cache", start |-> 0, destination |-> "", new |-> FALSE,
     sentinel |-> FALSE, post |-> ws.posts]

\* processed_traces_by_destination: a destination is a key iff its list is
\* not empty (keys are only made by setdefault(..).append and dropped by del)
IsKey(processed, d) == processed[d] # <<>>

Keys(processed) == {d \in DOMAIN processed : IsKey(processed, d)}

\* all_processed_traces()
AllProcessed(processed) == UNION {Range(processed[d]) : d \in DOMAIN processed}

\* line 86: processed_traces_by_destination.setdefault(host, []).append(trace_key)
MarkProcessed(processed, host, key) == [processed EXCEPT ![host] = Append(@, key)]

\* (mutant) the destination is left in the map
DelDestination_Keep(processed, d) == processed

\* line 93: del processed_traces_by_destination[tracer.destination]
DelDestination(processed, d) == [processed EXCEPT ![d] = <<>>]

\* (mutant) every trace is taken for processed
AlreadyProcessed_Always(processed, key) == TRUE

\* line 82: trace_key in all_processed_traces()
AlreadyProcessed(processed, key) == key \in AllProcessed(processed)

\* lines 89-93: `for tracer in self.removed_tracers`, from position ri of the
\* list object the loop iterates, up to the next `await send_trace(...)`
RECURSIVE RemovedLoop(_, _)
RemovedLoop(p, trs) ==
    IF p.ri > Len(p.rlist) THEN [p EXCEPT !.pc = "sleep"]
    ELSE LET t == p.rlist[p.ri]
             d == trs[t].destination
         IN  IF IsKey(p.processed, d)
             THEN IF trs[t].history = <<>>
                  THEN [p EXCEPT !.pc = "crashed"]      \* history[-1]: IndexError
                  ELSE [p EXCEPT !.pc = "send_removed",
                                 !.pend = Last(trs[t].history),
                                 !.ri = @ + 1]
             ELSE RemovedLoop([p EXCEPT !.ri = @ + 1], trs)

\* lines 79-87: `for trace_entry in all_active_traces`, from position ai up to
\* the next `await send_trace(...)`, or on into the removal loop
RECURSIVE ActiveLoop(_, _, _)
ActiveLoop(p, trs, removed_tracers) ==
    IF p.ai > Len(p.all)
    THEN RemovedLoop([p EXCEPT !.all = <<>>, !.ai = 1,
                               !.rlist = removed_tracers, !.ri = 1,
                               !.keys0 = Keys(p.processed)], trs)
    ELSE LET e   == p.all[p.ai]
             key == <<e.start, e.destination>>
         IN  IF AlreadyProcessed(p.processed, key)
             THEN ActiveLoop([p EXCEPT !.ai = @ + 1], trs, removed_tracers)
             ELSE [p EXCEPT !.processed = MarkProcessed(@, e.destination, key),
                            !.pend = e,
                            !.pc = "send_active",
                            !.ai = @ + 1]

NoRec == TraceRec(0, "", FALSE)

\* websocket_handler is called for a new connection; it awaits the send of
\* clear_cache
SubConnect(s) ==
    /\ subs[s].pc = "off"
    /\ subs' = [subs EXCEPT ![s].pc = "hello"]
    /\ UNCHANGED <<tracers, active_tracers, sup, ws, clock>>

\* send_traces() is entered: after clear_cache went out, or when the
\* WS_PUBLISH_INTERVAL sleep is over
PubTick(s) ==
    /\ subs[s].pc \in {"hello", "sleep"}
    /\ LET p == subs[s]
           f == IF p.pc = "hello" THEN Append(p.frames, ClearCache) ELSE p.frames
       IN  subs' = [subs EXCEPT ![s] =
               ActiveLoop([p EXCEPT !.frames = f,
                                    !.f0 = Len(f),
                                    !.tick_post = ws.posts,
                                    !.all = ConcatHistories(tracers, WsActive),
                                    !.ai = 1],
                          tracers, ws.removed_tracers)]
    /\ UNCHANGED <<tracers, active_tracers, sup, ws, clock>>

\* `await send_trace(trace_entry, new=True)` is over: the frame is out
PubSentActive(s, max_frames) ==
    /\ subs[s].pc = "send_active"
    /\ Len(subs[s].frames) < max_frames
    /\ subs' = [subs EXCEPT ![s] =
           ActiveLoop([subs[s] EXCEPT !.frames = Append(@, Frame(subs[s].pend, TRUE)),
                                      !.pend = NoRec],
                      tracers, ws.removed_tracers)]
    /\ UNCHANGED <<tracers, active_tracers, sup, ws, clock>>

\* `await send_trace(tracer.history[-1], new=False)` is over: the frame is
\* out, and the destination is dropped from the map
PubSentRemoved(s, max_frames) ==
    /\ subs[s].pc = "send_removed"
    /\ Len(subs[s].frames) < max_frames
    /\ subs' = [subs EXCEPT ![s] =
           RemovedLoop([subs[s] EXCEPT
                            !.frames = Append(@, Frame(subs[s].pend, FALSE)),
                            !.processed = DelDestination(@, subs[s].pend.destination),
                            !.pend = NoRec],
                       tracers)]
    /\ UNCHANGED <<tracers, active_tracers, sup, ws, clock>>

\* (mutant) every handler ends
CloseHandler_All(ss, s) ==
    [o \in DOMAIN ss |-> [ss[o] EXCEPT !.pc = "closed",
                                       !.processed = [d \in Dests |-> <<>>]]]

\* the handler of s ends with the exception: its frame is gone, and with it
\* the processed_traces_by_destination of line 44, which is local to it
CloseHandler(ss, s) ==
    [ss EXCEPT ![s].pc = "closed", ![s].processed = [d \in Dests |-> <<>>],
               ![s].pend = NoRec, ![s].all = <<>>, ![s].ai = 1,
               ![s].rlist = <<>>, ![s].ri = 1]

\* `await websocket.send(...)` of line 64 or 67 raises (the connection is
\* closed): nothing in the handler catches it
SendFails(s) ==
    /\ subs[s].pc \in {"hello", "send_active", "send_removed"}
    /\ subs' = CloseHandler(subs, s)
    /\ UNCHANGED <<tracers, active_tracers, sup, ws, clock>>

\* ------------------------------------------------------------- one tracer, in detail

\* Python's None where the other values are strings (a missing hop)
None == "None"

\* Optional values that are sequences otherwise (last, dports, backoff_until):
\* None is <<>>, a value x is <<x>>
NoValue == <<>>

Some(x) == <<x>>

\* the destination of the tracer that is followed in detail
Dst == "8.8.8.8"

\* _loop's max_ttl
max_ttl == 64

\* the module constant TRACE_INTERVAL
TRACE_INTERVAL == 5

\* start(trace_interval): the default, or 0 (the loop then never runs)
TraceIntervals == {0, TRACE_INTERVAL}

\* start(trace_interval) with the default and with a shorter interval
BackoffIntervals == {2, TRACE_INTERVAL}

\* what a probe can answer for one hop
HopValues == {None, "10.0.0.1", Dst}

\* a result of the length _loop takes for garbage (max_ttl - 1 hops)
RunawayTrace == [k \in 1..(max_ttl - 1) |-> IF k = max_ttl - 1 THEN Dst ELSE "10.0.0.1"]

\* what traceroute.trace can return: any hops of the lengths tried, or a
\* runaway
ProbeResults ==
    UNION {[1..n -> HopValues] : n \in TraceLengths} \cup {RunawayTrace}

\* probe results that miss the destination (TracerouteError or nothing at
\* all, a path that ends early, a path that ends at another host), and one
\* that reaches it
BackoffResults == {<<>>, <<"10.0.0.1", None>>, <<"10.0.0.1">>, <<Dst>>}

\* tuple(v) of a set of ports: the elements in the set's iteration order,
\* which is not determined by the set's elements
PortTuples == {<<"443">>, <<"443", "80">>, <<"80", "443">>}

\* the CNAME chains lookup() can return for the destination
CnameChains == {<<>>, <<"dns.google">>}

\* lines 97-104: the three filter rules
\* (mutant) every result is taken
IsFiltered_Never(tr) == FALSE

IsFiltered(tr) ==
    \/ \A k \in DOMAIN tr : tr[k] = None          \* not any(tr)
    \/ Len(tr) = max_ttl - 1
    \/ tr[Len(tr)] = None

\* (mutant) the new trace is used as it is
MergeTrace_Unmerged(last, tr) == tr

\* lines 111-118: the pointwise merge with the previous trace of equal length
MergeTrace(last, tr) ==
    IF last # NoValue /\ Len(tr) = Len(last[1])
    THEN [k \in 1..Len(tr) |-> IF tr[k] = None THEN last[1][k] ELSE tr[k]]
    ELSE tr

\* lines 120-123: change detection
Change(last, dports_last, tr, dports) ==
    IF last = NoValue \/ dports_last = NoValue THEN TRUE
    ELSE ~(tr = last[1] /\ dports_last = dports)

\* a Trace namedtuple
Trace(start, destination, change, duration, trace, traceback, dports, cnames) ==
    [start |-> start, destination |-> destination, change |-> change,
     duration |-> duration, trace |-> trace, traceback |-> traceback,
     dports |-> dports, cnames |-> cnames]

\* (mutant) the sentinel is stamped with the epoch
Sentinel_Unstamped(tr, t) == Trace(0, tr.destination, TRUE, 0, <<>>, <<>>, <<>>, tr.cnames)

\* line 142: the sentinel appended when the loop has ended
Sentinel(tr, t) == Trace(t, tr.destination, TRUE, 0, <<>>, <<>>, <<>>, tr.cnames)

\* TracerouteTracer._stop, lines 172-176
StopFields(tr) == [tr EXCEPT !.traceroute = FALSE, !.shutdown = TRUE, !.running = FALSE]

\* (mutant) a probe that reaches the destination leaves the back-off in force
Account_KeepBackoff(tr, result, t) ==
    IF Dst \notin Range(result)
    THEN [tr EXCEPT !.failcount = @ + 1,
                    !.backoff_until = Some(t + TRACE_INTERVAL * (tr.failcount + 1))]
    ELSE [tr EXCEPT !.failcount = 0]

\* one_trace, lines 215-223: failure accounting for a probe result
Account(tr, result, t) ==
    IF Dst \notin Range(result)
    THEN [tr EXCEPT !.failcount = @ + 1,
                    !.backoff_until = IF tr.failcount + 1 > 1
                                      THEN Some(t + TRACE_INTERVAL * (tr.failcount + 1))
                                      ELSE @]
    ELSE [tr EXCEPT !.failcount = 0, !.backoff_until = NoValue]

\* (mutant) back-off is never observed
InBackoff_Never(tr, t) == FALSE

\* one_trace, lines 191-195: back-off is set and lies in the future
InBackoff(tr, t) == tr.backoff_until # NoValue /\ t < tr.backoff_until[1]

\* the state of the one tracer and its task, as one value
TT == [tracer |-> tracer, task |-> task]

\* (mutant) the sentinel is appended twice
LoopEnd_Twice(x, t) ==
    [x EXCEPT !.tracer.history = Append(Append(@, Sentinel(x.tracer, t)), Sentinel(x.tracer, t)),
              !.task.pc = "done"]

\* the loop has ended: line 142, and the task is over
LoopEnd(x, t) ==
    [x EXCEPT !.tracer.history = Append(@, Sentinel(x.tracer, t)),
              !.task.pc = "done"]

\* the end of an iteration, lines 137-139: sleep while running, else the
\* while condition ends the loop
IterEnd(x, t) ==
    IF x.tracer.running THEN [x EXCEPT !.task.pc = "sleep"] ELSE LoopEnd(x, t)

\* lines 97-136: what _loop does with the result of one_trace
LoopBody(x, result, t) ==
    IF IsFiltered(result) THEN IterEnd(x, t)
    ELSE LET tr      == MergeTrace(x.task.last, result)
             change  == Change(x.task.last, x.task.dports_last, tr, x.tracer.dports)
             append  == ~x.tracer.only_changes \/ change
             rec     == Trace(x.task.start, x.tracer.destination, change,
                              t - x.task.start, tr, None, x.tracer.dports, 2)
             hist    == IF append THEN Append(x.tracer.history, rec)
                        ELSE x.tracer.history
         IN  IterEnd([x EXCEPT
                 !.task.last = IF change THEN Some(tr) ELSE @,
                 !.task.dports_last = x.tracer.dports,
                 !.tracer.history = hist,
                 \* what the iteration saw and did, for the claims
                 !.task.it = [n |-> x.task.it.n + 1,
                              prev_tr |-> x.task.it.tr,
                              prev_dports |-> x.task.it.dports,
                              raw |-> result, tr |-> tr,
                              dports |-> x.tracer.dports,
                              change |-> change, appended |-> append,
                              prev_hlen |-> Len(x.tracer.history),
                              hlen |-> Len(hist)]], t)

\* lines 91-94 and one_trace up to its await (lines 191-208): an iteration
\* begins
IterStart(x, t) ==
    IF ~(x.tracer.running /\ x.task.trace_interval # 0) THEN LoopEnd(x, t)
    ELSE LET y == [x EXCEPT !.task.start = t, !.task.iterations = @ + 1,
                            \* what the iteration found, for the claims
                            !.task.iter = [backoff |-> x.tracer.backoff_until,
                                           probed |-> FALSE,
                                           hlen |-> Len(x.tracer.history),
                                           n |-> x.task.it.n]] IN
         IF InBackoff(y.tracer, t) THEN LoopBody(y, <<>>, t)
         ELSE IF y.tracer.shutdown
         THEN \* run_in_executor raises RuntimeError; _loop's finally sleeps first
              [y EXCEPT !.task.pc = "sleep", !.task.pending = "error"]
         ELSE [y EXCEPT !.task.pc = "probe", !.tracer.traceroute = TRUE,
                        !.task.iter.probed = TRUE]

SetTT(x) ==
    /\ tracer' = x.tracer
    /\ task' = x.task

\* Tracer.start(): the task is created
Start(intervals) ==
    /\ task.pc = "none"
    /\ \E ti \in intervals : task' = [task EXCEPT !.pc = "created", !.trace_interval = ti]
    /\ UNCHANGED <<tracer, now>>

\* astart's first step: running is set and _loop is entered
Begin ==
    /\ task.pc = "created"
    /\ SetTT(IterStart([TT EXCEPT !.tracer.running = TRUE,
                                  !.task.last = NoValue,
                                  !.task.dports_last = NoValue], now))
    /\ UNCHANGED now

\* `await traceroute_thread` is over: the probe returned hops, or raised
\* TracerouteError (result []); a second of time has passed
ProbeDoneWith(result) ==
    /\ task.pc = "probe"
    /\ SetTT(LoopBody([TT EXCEPT !.tracer = Account([@ EXCEPT !.traceroute = FALSE],
                                                    result, now + 1),
                                 \* what was accounted, for the claims
                                 !.task.acct = [n |-> @.n + 1, at |-> now + 1,
                                                reached |-> Dst \in Range(result),
                                                before |-> tracer.failcount]],
                      result, now + 1))
    /\ now' = now + 1

\* the probe is over with any of the results given
ProbeDone(results) == \E result \in results : ProbeDoneWith(result)

\* what the traceroute child printed, as parse_output reads it
ExitHops == {<<Dst>>, <<"10.0.0.1", Dst>>, <<"10.0.0.1", None>>}

\* the child's exit codes: success, killed (-9), terminated (-15), and
\* failures
ReturnCodes == {0, -9, -15, 1, 2}

\* (mutant) every exit code is taken for success
TracerouteTrace_AnyCode(hops, returncode) == [raised |-> FALSE, result |-> hops]

\* Traceroute.trace, lines 136-144: the parsed hops, or TracerouteError
TracerouteTrace(hops, returncode) ==
    IF returncode \in {0, -9, -15}
    THEN [raised |-> FALSE, result |-> hops]
    ELSE [raised |-> TRUE, result |-> <<>>]

\* one_trace, lines 205-213: the result of the thread, [] when it raised
OneTraceResult(outcome) == IF outcome.raised THEN <<>> ELSE outcome.result

\* `await traceroute_thread` is over, the child having printed hops and
\* exited with returncode
ProbeExitWith(hops, returncode) ==
    /\ ProbeDoneWith(OneTraceResult(TracerouteTrace(hops, returncode)))
    /\ child' = [n |-> IF child.n < 2 THEN child.n + 1 ELSE child.n,
                 returncode |-> returncode,
                 raised |-> TracerouteTrace(hops, returncode).raised]

ProbeExit == \E hops \in ExitHops, returncode \in ReturnCodes : ProbeExitWith(hops, returncode)

\* the sleep of _loop's finally block is over
SleepDone(iterations) ==
    /\ task.pc = "sleep"
    /\ now' = now + task.trace_interval
    /\ IF task.pending = "error"
       THEN SetTT([TT EXCEPT !.task.pc = "failed"])       \* astart logs and re-raises
       ELSE IF task.pending = "cancel"
       THEN SetTT([TT EXCEPT !.task.pc = "cancelled",     \* astart calls _stop()
                             !.tracer = StopFields(@)])
       ELSE /\ task.iterations < iterations \/ ~tracer.running
            /\ SetTT(IterStart(TT, now + task.trace_interval))

\* Tracer.stop() up to its `await self._task`
Stop ==
    /\ task.pc # "none"
    /\ ~tracer.stopped
    /\ tracer' = [StopFields(tracer) EXCEPT !.stopped = TRUE]
    /\ UNCHANGED <<task, now>>

\* the task is cancelled (task.cancel(), as asyncio.run does on shutdown):
\* CancelledError is raised at the await the task is suspended in
Cancel ==
    /\ task.pc \in {"created", "probe", "sleep"}
    /\ task.pending # "cancel"
    /\ IF task.pc = "created"
       THEN SetTT([TT EXCEPT !.task.pc = "cancelled"])    \* astart never runs
       ELSE IF task.pc = "probe" /\ tracer.running
       THEN \* _loop's finally awaits sleep before the error goes on to astart
            SetTT([TT EXCEPT !.task.pc = "sleep", !.task.pending = "cancel"])
       ELSE SetTT([TT EXCEPT !.task.pc = "cancelled", !.tracer = StopFields(@)])
    /\ UNCHANGED now

\* main_loop assigns tracer.dports (lines 66 and 71)
SetDports ==
    /\ task.pc \in {"none", "created", "probe", "sleep"}
    /\ \E p \in PortTuples : tracer' = [tracer EXCEPT !.dports = Some(p)]
    /\ tracer' # tracer
    /\ UNCHANGED <<task, now>>

\* ------------------------------------------------------------- the hop cache

\* the hop addresses that are looked up
Ips == {"198.51.100.1", "203.0.113.9"}

\* what hop_info is called with: the hops of a trace, a missing hop included
Hops == Ips \cup {None}

\* the cache_ttl arguments that are tried (seconds)
CacheTtls == {1, 2}

\* the asn of a get_info result: a number, or one of the two that mean nothing
Asns == {"AS1103", "*", "NA"}

\* the asn get_info can come to for a hop: as_info(None) is the default record
AsnsOf(ip) == IF ip = None THEN {"*"} ELSE Asns

Restrict(f, S) == [x \in S |-> f[x]]

\* (mutant) nothing ever expires
Expired_Never(exp_time, t) == FALSE

\* lines 228-229: `exp_time < now`
Expired(exp_time, t) == exp_time < t

\* line 229: expired_times
ExpiredTimes(expire, t) == {e \in DOMAIN expire : Expired(e, t)}

\* line 228: expired_hops, as the set line 230 makes of it
ExpiredHops(expire, t) == UNION {Range(expire[e]) : e \in ExpiredTimes(expire, t)}

\* lines 230-234: the expired hops leave the cache, the expired buckets the index
Sweep(cache, expire, t) ==
    [cache  |-> Restrict(cache, DOMAIN cache \ ExpiredHops(expire, t)),
     expire |-> Restrict(expire, DOMAIN expire \ ExpiredTimes(expire, t)),
     swept  |-> Cardinality(DOMAIN cache \cap ExpiredHops(expire, t))]

\* line 250: hop_cache[ip] = result. `expires` is not in the program's record:
\* it notes the expiry this insertion registered, for the claims.
CachePut(cache, ip, result, e) ==
    [x \in DOMAIN cache \cup {ip} |->
        IF x = ip THEN [info |-> result, expires |-> e] ELSE cache[x]]

\* (mutant) the insertion is not listed
ExpirePut_Skip(expire, e, ip) == expire

\* line 251: hop_cache_expire.setdefault(e, []).append(ip)
ExpirePut(expire, e, ip) ==
    [x \in DOMAIN expire \cup {e} |->
        IF x = e THEN Append(IF e \in DOMAIN expire THEN expire[e] ELSE <<>>, ip)
        ELSE expire[x]]

\* line 248: the result is worth caching
Meaningful(result) == result.asn # "*" /\ result.asn # "NA"

NoInfo == [info |-> [ip |-> "", asn |-> ""], expires |-> 0]

\* a return of hop_info: the call's arguments, the time of the return (of a
\* hit, also the time of the call), what its sweep removed and what it got
Return(ip, cache_ttl, at, swept, hit, result) ==
    [ip |-> ip, cache_ttl |-> cache_ttl, at |-> at, swept |-> swept, hit |-> hit,
     result |-> result]

\* hop_info(ip, cache_ttl) up to its return from the cache (line 241) or its
\* await (line 247)
HopInfoCallWith(ip, cache_ttl) ==
    /\ returned.n < MaxCalls
    /\ LET s == Sweep(hop_cache, hop_cache_expire, now)
           hit == ip \in DOMAIN s.cache
       IN  /\ hop_cache' = s.cache
           /\ hop_cache_expire' = s.expire
           /\ IF hit
              THEN /\ returned' = [n |-> returned.n + 1,
                                   last |-> Return(ip, cache_ttl, now, s.swept, TRUE,
                                                   s.cache[ip])]
                   /\ UNCHANGED calls
              ELSE /\ returned' = [returned EXCEPT !.n = @ + 1]
                   /\ calls' = Append(calls, [ip |-> ip, cache_ttl |-> cache_ttl])
    /\ UNCHANGED <<now, looked_up>>

\* a call of hop_info, as send_trace makes one for every hop of a trace
HopInfoCall == \E ip \in Hops, cache_ttl \in CacheTtls : HopInfoCallWith(ip, cache_ttl)

\* `await info_thread` of one of the suspended calls is over: lines 248-254
HopInfoResume ==
    \E c \in DOMAIN calls : \E asn \in AsnsOf(calls[c].ip) :
        LET call == calls[c]
            result == [ip |-> call.ip, asn |-> asn]
            e == now + call.cache_ttl
        IN  /\ IF Meaningful(result)
               THEN /\ hop_cache' = CachePut(hop_cache, call.ip, result, e)
                    /\ hop_cache_expire' = ExpirePut(hop_cache_expire, e, call.ip)
               ELSE UNCHANGED <<hop_cache, hop_cache_expire>>
            /\ calls' = [k \in 1..(Len(calls) - 1) |->
                            IF k < c THEN calls[k] ELSE calls[k + 1]]
            /\ returned' = [returned EXCEPT
                   !.last = Return(call.ip, call.cache_ttl, now, 0, FALSE,
                                   [info |-> result, expires |-> e])]
            /\ looked_up' = [looked_up EXCEPT
                   ![call.ip] = IF Meaningful(result) THEN "resolved"
                                ELSE "unresolved"]
            /\ UNCHANGED now

\* a second passes
Tick ==
    /\ now < MaxTime
    /\ now' = now + 1
    /\ UNCHANGED cache_vars

\* ------------------------------------------------------------- the connection sampler

\* netstat.IGNORE_HOSTS
IGNORE_HOSTS == {"127.0.0.1", "::1"}

\* what the kernel's connection table can name as a remote address
NativeKeys ==
    {"8.8.8.8", "2001:db8::1", "127.0.0.1", "::1", "fe80::1", "::ffff:10.0.0.1"}

\* what a line of netstat output can yield as a destination: the same, or
\* text that is no address
NetstatKeys == NativeKeys \cup {"localhost"}

\* ipaddress.ip_address(address).version, 0 where it raises ValueError
IpVersion(address) ==
    CASE address \in {"8.8.8.8", "127.0.0.1"} -> 4
      [] address \in {"2001:db8::1", "::1", "fe80::1", "::ffff:10.0.0.1"} -> 6
      [] OTHER -> 0

\* k.startswith(IGNORE_PREFIXES), with IGNORE_PREFIXES = ('fe80:', '::ffff')
StartsWithIgnoredPrefix(k) == k \in {"fe80::1", "::ffff:10.0.0.1"}

\* ':' in k
HasColon(k) == k \in {"2001:db8::1", "::1", "fe80::1", "::ffff:10.0.0.1"}

\* (mutant) every key passes for an address
IsValidIpAddress_Any(address, version) == TRUE

\* util.is_valid_ip_address; version 0 stands for None
IsValidIpAddress(address, version) ==
    /\ IpVersion(address) # 0
    /\ version = 0 \/ version = IpVersion(address)

\* current_connections, lines 71-77: inet4 when ipv4_only, inet otherwise
NativeSamples(ipv4_only) ==
    SUBSET {k \in NativeKeys : ipv4_only => IpVersion(k) = 4}

\* _netstat_connections, lines 47-48: keys with a colon go when ipv4_only
NetstatFilter(keys, ipv4_only) ==
    IF ipv4_only THEN {k \in keys : ~HasColon(k)} ELSE keys

\* active_remote_hosts, lines 94-105: the ignore filter, then the validation
\* that raises or returns
ActiveRemoteHosts(remote_hosts, ipv4_only) ==
    LET kept    == {k \in remote_hosts :
                        k \notin IGNORE_HOSTS /\ ~StartsWithIgnoredPrefix(k)}
        version == IF ipv4_only THEN 4 ELSE 0
    IN  IF \A ip \in kept : IsValidIpAddress(ip, version)
        THEN [pc |-> "returned", hosts |-> kept]
        ELSE [pc |-> "raised", hosts |-> {}]

\* one call: what was asked, where the keys came from, what was gathered and
\* what came of it
Sampled(ipv4_only, path, gathered, out) ==
    [ipv4_only |-> ipv4_only, path |-> path, gathered |-> gathered,
     pc |-> out.pc, hosts |-> out.hosts]

\* active_remote_hosts with current_connections succeeding
SampleNative ==
    /\ \E ipv4_only \in BOOLEAN :
         \E keys \in NativeSamples(ipv4_only) :
            sampler' = Sampled(ipv4_only, "native", keys,
                               ActiveRemoteHosts(keys, ipv4_only))
    /\ sampler' # sampler

\* active_remote_hosts with current_connections raising
\* ConnectionListException: the keys come from netstat's output
SampleNetstat ==
    /\ \E ipv4_only \in BOOLEAN :
         \E keys \in SUBSET NetstatKeys :
            sampler' = Sampled(ipv4_only, "netstat", keys,
                               ActiveRemoteHosts(NetstatFilter(keys, ipv4_only),
                                                 ipv4_only))
    /\ sampler' # sampler

\* ------------------------------------------------------------- the reverse-name store

\* the addresses the DNS log yields answers for
LoggedIps == {"8.8.8.8", "1.1.1.1", "9.9.9.9", "192.0.2.53"}

\* the name chains the log yields
LoggedNames == {<<"dns.example">>, <<"cdn.example", "www.example">>}

\* line 96: del resolve_dict[ip]
DelItem(d, ip) == SelectSeq(d, LAMBDA item : item.ip # ip)

\* (mutant) nothing is evicted
Popitem_Keep(d) == d

\* line 98: OrderedDict.popitem() with its default last=True removes the
\* item at the end of the order, the one set last
Popitem(d) == SubSeq(d, 1, Len(d) - 1)

\* line 99: resolve_dict[ip] = names, for an ip that is not a key
SetItem(d, ip, names) == Append(d, [ip |-> ip, names |-> names])

\* lines 94-99: what the reader does with one (ip, names) of the log
Record(d, ip, names, max_items) ==
    LET d1 == IF ip \in Range(StoredIps(d)) THEN DelItem(d, ip) ELSE d
        d2 == IF Len(d1) >= max_items THEN Popitem(d1) ELSE d1
    IN  SetItem(d2, ip, names)

\* one pass of the reader's loop, lines 91-99
ReaderRecord ==
    \E ip \in LoggedIps, names \in LoggedNames :
        LET d1 == IF ip \in Range(StoredIps(resolve_dict))
                  THEN DelItem(resolve_dict, ip) ELSE resolve_dict
            d  == Record(resolve_dict, ip, names, MaxItems)
        IN  /\ resolve_dict' = d
            /\ recorded' = [n |-> IF recorded.n < MaxItems + 2 THEN recorded.n + 1
                                  ELSE recorded.n,
                            ip |-> ip,
                            \* the order the eviction, if any, chose from
                            before |-> StoredIps(d1),
                            full |-> Len(d1) >= MaxItems,
                            evicted |-> Range(StoredIps(d1)) \ Range(StoredIps(d)),
                            latest |-> [recorded.latest EXCEPT ![ip] = names]]
            /\ <<resolve_dict', recorded'>> # <<resolve_dict, recorded>>

\* ------------------------------------------------------------- the traceroute wrapper

\* what platform.system() may answer
Platforms == {"Darwin", "OpenBSD", "Linux", "Windows", "FreeBSD"}

\* _is_privileged(): never on Windows; euid 0; else, on Linux only, whether
\* getcap lists cap_net_raw=ep for the traceroute binary
IsPrivileged(platform, euid_root, cap_net_raw) ==
    IF platform = "Windows" THEN FALSE
    ELSE IF euid_root \/ platform # "Linux" THEN euid_root
    ELSE cap_net_raw

\* the class attributes; BSDTraceroute inherits those of Traceroute
NonrootCapabilities(cls) ==
    CASE cls = "LinuxTraceroute" -> {"udp"}
      [] cls = "WindowsTraceroute" -> {"icmp"}
      [] OTHER -> {"icmp", "udp", "tcp", "gre"}

RootCapabilities(cls) ==
    CASE cls = "LinuxTraceroute" -> {"icmp", "udp", "tcp"}
      [] cls = "WindowsTraceroute" -> {"icmp"}
      [] OTHER -> {"icmp", "udp", "tcp", "gre"}

Ipv6Capabilities(cls) ==
    CASE cls = "WindowsTraceroute" -> {"icmp"}
      [] OTHER -> {"icmp", "udp"}

\* Traceroute.capabilities(ipv6, privileged); privileged is None or a bool
Capabilities(cls, ipv6, privileged, is_privileged) ==
    LET my_capabilities == IF privileged = Some(TRUE) \/ is_privileged
                           THEN RootCapabilities(cls)
                           ELSE NonrootCapabilities(cls)
    IN  IF ipv6 THEN my_capabilities \cap Ipv6Capabilities(cls)
        ELSE my_capabilities

\* line 253: the dict of implementations, "" for a key it does not have
Implementations(system) ==
    CASE system \in {"Darwin", "OpenBSD"} -> "BSDTraceroute"
      [] system = "Linux" -> "LinuxTraceroute"
      [] OTHER -> ""

\* get_traceroute(system): the class of the object it returns
GetTraceroute(system) ==
    IF Implementations(system) = "" THEN "LinuxTraceroute"
    ELSE Implementations(system)

\* the module is imported: line 71 sets IS_PRIVILEGED once
ImportTraceroute ==
    /\ troute.pc = "unloaded"
    /\ \E platform \in Platforms, euid_root \in BOOLEAN, cap_net_raw \in BOOLEAN :
         troute' = [troute EXCEPT !.pc = "loaded", !.platform = platform,
                       !.IS_PRIVILEGED = IsPrivileged(platform, euid_root,
                                                      cap_net_raw)]

\* a call get_traceroute(system), system None meaning platform.system()
CallGetTraceroute ==
    /\ troute.pc # "unloaded"
    /\ \E arg \in {NoValue} \cup {Some(p) : p \in Platforms} :
         LET system == IF arg = NoValue THEN troute.platform ELSE arg[1]
         IN  troute' = [troute EXCEPT !.pc = "selected", !.system = system,
                           !.implementation = GetTraceroute(system),
                           !.ipv6 = FALSE, !.privileged = NoValue,
                           !.capabilities = {}]
    /\ troute' # troute

\* a call capabilities(ipv6, privileged) on the object got last
CallCapabilities ==
    /\ troute.pc \in {"selected", "capabilities"}
    /\ \E ipv6 \in BOOLEAN, privileged \in {NoValue, Some(FALSE), Some(TRUE)} :
         troute' = [troute EXCEPT !.pc = "capabilities", !.ipv6 = ipv6,
                       !.privileged = privileged,
                       !.capabilities = Capabilities(troute.implementation, ipv6,
                                                     privileged,
                                                     troute.IS_PRIVILEGED)]
    /\ troute' # troute

\* ------------------------------------------------------------- protocol cycling

\* line 180: the default pref
DefaultPref == <<"icmp", "udp", "tcp">>

\* list(a_set): the elements in the set's iteration order, which for a set
\* of strings is any order (hash randomisation)
ListsOf(S) ==
    {f \in [1..Cardinality(S) -> S] : \A i, j \in DOMAIN f : f[i] = f[j] => i = j}

\* capabilities_for_host(host), lines 172-175, on the object get_traceroute()
\* returns for the platform
CapabilitiesForHost(platform, ipv6, is_privileged) ==
    Capabilities(GetTraceroute(platform), ipv6, Some(is_privileged), is_privileged)

\* line 183: [proto for proto in pref if proto in capabilities] + list(capabilities)
CapByPref(pref, capabilities, listed) ==
    SelectSeq(pref, LAMBDA proto : proto \in capabilities) \o listed

\* lines 185-186: popleft(), then append what was popped
Rotate(q) == Append(Tail(q), Head(q))

\* cycle_protocol(traceroute), the first call filling the deque
CycleProtocol ==
    /\ Len(cycle.chosen) < MaxSelections
    /\ \/ /\ cycle.cycle_protocols = NoValue
          /\ \E platform \in Platforms, ipv6 \in BOOLEAN, euid_root \in BOOLEAN,
                cap_net_raw \in BOOLEAN :
               LET capabilities ==
                       CapabilitiesForHost(platform, ipv6,
                                           IsPrivileged(platform, euid_root, cap_net_raw))
               IN  \E listed \in ListsOf(capabilities) :
                     LET q == CapByPref(DefaultPref, capabilities, listed)
                     IN  cycle' = [cycle_protocols |-> Some(Rotate(q)),
                                   capabilities |-> capabilities,
                                   chosen |-> <<Head(q)>>]
       \/ /\ cycle.cycle_protocols # NoValue
          /\ LET q == cycle.cycle_protocols[1]
             IN  cycle' = [cycle EXCEPT !.cycle_protocols = Some(Rotate(q)),
                                        !.chosen = Append(@, Head(q))]

\* ------------------------------------------------------------- hop enrichment

\* a public address, an RFC1918 address and a missing hop
PublicHop == "8.8.8.8"
PrivateHop == "10.0.0.1"
EnrichHops == {PublicHop, PrivateHop, None}

\* get_info.is_private: None is not private
is_private(ip) == ip = PrivateHop

\* what ipwhois.IPWhois(ip) and obj.lookup_rdap(depth=1) come to: a result with
\* an asn, a result without one, or an exception of the constructor or of the lookup
RegistryFound == {"found", "found_NA"}
RegistryCaught ==
    {"IPWhois:ValueError", "lookup_rdap:IPDefinedError", "lookup_rdap:WhoisLookupError",
     "lookup_rdap:ASNParseError", "lookup_rdap:HTTPLookupError",
     "lookup_rdap:HTTPRateLimitError", "lookup_rdap:PywhoisError",
     "lookup_rdap:ConnectionResetError"}
RegistryOutcomes ==
    RegistryFound \cup RegistryCaught
        \cup {"IPWhois:IPDefinedError", "lookup_rdap:ASNRegistryError"}

\* socket.gethostbyaddr(ip): a name, or socket.herror
RdnsOutcomes == {"name", "herror"}

\* whois.whois(ip, flags): a domain name, none, or an exception of the parser
WhoisOutcomes == {"domain", "no_domain", "PywhoisError", "ValueError"}

\* resolver.resolve(reverse_name, 'TXT'): a v=DIS1 record, none, or any exception
TxtOutcomes == {"dis", "no_dis", "Exception"}

Lookups ==
    [registry : RegistryOutcomes, rdns : RdnsOutcomes, whois : WhoisOutcomes,
     txt : TxtOutcomes]

\* as_info's empty_dict: a defaultdict whose every key reads '*'
empty_dict ==
    [asn |-> "*", asn_country_code |-> "*", asn_cidr |-> "*", asn_description |-> "*"]

Raised(exc) == [raised |-> exc, value |-> NoValue]
Returned(value) == [raised |-> "", value |-> Some(value)]

\* get_info.as_info(ip, empty): the exceptions of its except clauses give
\* empty_dict, any other one leaves the function
as_info(ip, empty, registry) ==
    IF empty \/ ip = None THEN Returned(empty_dict)
    ELSE IF registry = "found"
    THEN Returned([asn |-> "AS15169", asn_country_code |-> "US",
                   asn_cidr |-> "8.8.8.0/24", asn_description |-> "GOOGLE"])
    ELSE IF registry = "found_NA"
    THEN Returned([asn |-> "NA", asn_country_code |-> "NA",
                   asn_cidr |-> "NA", asn_description |-> "NA"])
    ELSE IF registry \in RegistryCaught THEN Returned(empty_dict)
    ELSE Raised(registry)

\* get_info.get_hostname(ip)
get_hostname(ip, rdns) ==
    IF ip = None THEN Returned(None)
    ELSE IF rdns = "name" THEN Returned("dns.google")
    ELSE IF rdns = "herror" THEN Returned(ip)
    ELSE Raised(rdns)

\* get_info.get_domain(ip): without a domain name the last two labels of the hostname
get_domain(ip, whois, rdns) ==
    IF ip = None THEN Returned(None)
    ELSE IF whois = "domain" THEN Returned("google.com")
    ELSE IF whois = "no_domain"
    THEN LET hostname == get_hostname(ip, rdns)
         IN  IF hostname.raised # "" THEN hostname
             ELSE IF hostname.value[1] = ip THEN Returned(ip)
             ELSE Returned("dns.google")
    ELSE IF whois \in {"PywhoisError", "ValueError"} THEN Returned(ip)
    ELSE Raised(whois)

\* get_dis(hop): every exception gives None
get_dis(hop, txt) ==
    IF hop = None THEN None
    ELSE IF txt = "dis" THEN "192.168.1.1"
    ELSE None

\* ROAChecker.roa_valid(asn, prefix) over a dataset that holds the found prefix
roa_valid(asn, prefix) ==
    IF asn = "*" \/ prefix = "*" THEN FALSE
    ELSE <<asn, prefix>> = <<"AS15169", "8.8.8.0/24">>

\* get_info(ip_address): the record, or the exception that leaves it
get_info(ip_address, lk) ==
    LET found == IF ~is_private(ip_address) THEN as_info(ip_address, FALSE, lk.registry)
                 ELSE as_info(ip_address, TRUE, lk.registry)
        asn_info == IF is_private(ip_address)
                    THEN [found.value[1] EXCEPT !.asn = "private_ip",
                                                !.asn_description = "RFC1918/RFC4193"]
                    ELSE found.value[1]
        hostname == get_hostname(ip_address, lk.rdns)
        domain == get_domain(ip_address, lk.whois, lk.rdns)
    IN  IF found.raised # "" THEN found
        ELSE IF hostname.raised # "" THEN hostname
        ELSE IF domain.raised # "" THEN domain
        ELSE Returned([asn |-> asn_info.asn,
                       hostname |-> hostname.value[1],
                       country |-> asn_info.asn_country_code,
                       cidr |-> asn_info.asn_cidr,
                       description |-> asn_info.asn_description,
                       domain |-> domain.value[1],
                       dis |-> get_dis(ip_address, lk.txt),
                       roa |-> IF roa_valid(asn_info.asn, asn_info.asn_cidr)
                               THEN "valid" ELSE "invalid",
                       ip |-> ip_address])

\* the record hop_cache holds for ip, if any
CachedInfo(ip) == {r \in enrich.hop_cache : r.ip = ip}

\* send_trace asks hop_info for a hop: a cached record is returned at once,
\* otherwise get_info goes to the pool and hop_info waits for it
EnrichCall ==
    /\ enrich.handler = "running"
    /\ enrich.n < MaxEnrichCalls
    /\ \E ip \in EnrichHops :
         IF CachedInfo(ip) # {}
         THEN enrich' = [enrich EXCEPT !.n = @ + 1, !.ip = ip, !.raised = "",
                                       !.result = Some(CHOOSE r \in CachedInfo(ip) : TRUE),
                                       !.from_cache = TRUE]
         ELSE enrich' = [enrich EXCEPT !.n = @ + 1, !.ip = ip, !.raised = "",
                                       !.handler = "await", !.result = NoValue,
                                       !.from_cache = FALSE]

\* get_info ends with these outcomes of its lookups: hop_info caches a record with
\* an asn and returns it; an exception leaves hop_info, the gather of send_trace
\* and the handler
EnrichResumeWith(lk) ==
    /\ enrich.handler = "await"
    /\ LET out == get_info(enrich.ip, lk)
       IN  IF out.raised # ""
           THEN enrich' = [enrich EXCEPT !.handler = "ended", !.raised = out.raised,
                                         !.registry = lk.registry]
           ELSE enrich' = [enrich EXCEPT
                    !.handler = "running", !.registry = lk.registry, !.result = out.value,
                    !.hop_cache = IF out.value[1].asn # "*" /\ out.value[1].asn # "NA"
                                  THEN @ \cup {out.value[1]} ELSE @]

EnrichResume == \E lk \in Lookups : EnrichResumeWith(lk)

\* a client connects again after its handler has ended
EnrichReconnect ==
    /\ enrich.handler = "ended"
    /\ enrich' = [enrich EXCEPT !.handler = "running", !.raised = ""]

\* ------------------------------------------------------------- the ROA dataset

\* rpki.VRPS_EXPIRE_DAYS
VRPS_EXPIRE_DAYS == 7

\* what VRPS_URL serves on a day: the build of that day
RemoteData(day) ==
    [buildtime |-> day,
     roas |-> IF day < VRPS_EXPIRE_DAYS THEN {<<"15169", "8.8.8.0/24">>}
              ELSE {<<"15169", "8.8.8.0/24">>, <<"1140", "94.198.152.0/21">>}]

\* requests.get(...).json() and the write of the file: done, or one of them raises
DownloadOutcomes == {"ok", "get_raises", "write_raises"}

\* ROAChecker._download_vrps: self.data is assigned before the file is written
DownloadVrps(data, file, day, download) ==
    IF download = "get_raises"
    THEN [raised |-> TRUE, data |-> data, file |-> file]
    ELSE IF download = "write_raises"
    THEN [raised |-> TRUE, data |-> Some(RemoteData(day)), file |-> file]
    ELSE [raised |-> FALSE, data |-> Some(RemoteData(day)), file |-> Some(RemoteData(day))]

\* ROAChecker._load_vrps: a file whose buildtime is less than VRPS_EXPIRE_DAYS old
\* is all that is read; otherwise _download_vrps is called, with nothing around it
LoadVrps(file, day, download) ==
    IF file # NoValue /\ file[1].buildtime + VRPS_EXPIRE_DAYS > day
    THEN [raised |-> FALSE, data |-> file, file |-> file, downloaded |-> FALSE]
    ELSE LET d == DownloadVrps(file, file, day, download)
         IN  [raised |-> d.raised, data |-> d.data, file |-> d.file, downloaded |-> TRUE]

\* ROAChecker(): __init__ ends when _load_vrps returns; an exception of it leaves
\* no checker (node_info constructs it at import)
ConstructWith(download) ==
    /\ roa.checker = NoValue
    /\ LET l == LoadVrps(roa.file, roa.day, download)
       IN  roa' = [roa EXCEPT !.file = l.file,
                              !.checker = IF l.raised THEN NoValue ELSE l.data,
                              !.last = [n |-> (roa.last.n + 1) % 2, file0 |-> roa.file,
                                        raised |-> l.raised,
                                        downloaded |-> l.downloaded]]

Construct == \E download \in DownloadOutcomes : ConstructWith(download)

\* ROAChecker.roa_valid(asn, prefix) of the constructed checker
RoaValid(data, asn, prefix) ==
    IF asn = "*" \/ prefix = "*" THEN FALSE
    ELSE <<asn, prefix>> \in data.roas

\* the program ends, and a day passes before it is started again
NextDay ==
    /\ roa.day < MaxDay
    /\ roa' = [roa EXCEPT !.day = @ + 1, !.checker = NoValue]

\* ------------------------------------------------------------- the reader thread

\* reader runs in a thread of its own (start_dnsmasq_reader) and lookup is
\* called from the event loop's thread; neither takes a lock, so the other
\* thread can run between any two statements of the reader's loop body

\* lines 92-96: the next (ip, names) of the log; a stored ip is deleted
ReaderBegin ==
    /\ race.pc = "idle"
    /\ \E ip \in LoggedIps, names \in LoggedNames :
         LET stored == ip \in Range(StoredIps(resolve_dict)) IN
         /\ race' = [race EXCEPT !.pc = "evict", !.ip = ip, !.names = names,
                                 !.stored = stored,
                                 !.old = Lookup(resolve_dict, ip)]
         /\ resolve_dict' = IF stored THEN DelItem(resolve_dict, ip) ELSE resolve_dict

\* lines 97-98: a full store loses an item
ReaderEvict ==
    /\ race.pc = "evict"
    /\ race' = [race EXCEPT !.pc = "set"]
    /\ resolve_dict' = IF Len(resolve_dict) >= MaxItems THEN Popitem(resolve_dict)
                       ELSE resolve_dict

\* line 99: resolve_dict[ip] = names
ReaderSet ==
    /\ race.pc = "set"
    /\ race' = [race EXCEPT !.pc = "idle"]
    /\ resolve_dict' = SetItem(resolve_dict, race.ip, race.names)

\* lookup(ip) on the event loop's thread (main_loop line 69), wherever the
\* reader is
LookupCall ==
    /\ \E ip \in LoggedIps :
         race' = [race EXCEPT !.looked =
                    [n |-> 1, ip |-> ip, names |-> Lookup(resolve_dict, ip),
                     len |-> Len(resolve_dict),
                     rerecording |-> race.pc # "idle" /\ race.ip = ip /\ race.stored,
                     old |-> race.old, new |-> race.names]]
    /\ race'.looked # race.looked
    /\ UNCHANGED resolve_dict

\* ------------------------------------------------------------- specification

NoIteration ==
    [n |-> 0, prev_tr |-> <<>>, prev_dports |-> NoValue, raw |-> <<>>, tr |-> <<>>,
     dports |-> NoValue, change |-> FALSE, appended |-> FALSE, prev_hlen |-> 0,
     hlen |-> 0]

\* Tracer.__init__ and TracerouteTracer.__init__, and the cnames main_loop
\* installs before start()
InitTracer ==
    /\ \E oc \in BOOLEAN, cn \in CnameChains :
           tracer = [destination |-> Dst, only_changes |-> oc, history |-> <<>>,
                     running |-> FALSE, dports |-> NoValue, cnames |-> cn,
                     failcount |-> 0, backoff_until |-> NoValue,
                     traceroute |-> FALSE, shutdown |-> FALSE,
                     stopped |-> FALSE]
    /\ task = [pc |-> "none", trace_interval |-> TRACE_INTERVAL, last |-> NoValue,
               dports_last |-> NoValue, start |-> 0, pending |-> "",
               iterations |-> 0, it |-> NoIteration,
               iter |-> [backoff |-> NoValue, probed |-> FALSE, hlen |-> 0, n |-> 0],
               acct |-> [n |-> 0, at |-> 0, reached |-> FALSE, before |-> 0]]
    /\ now = 0

\* the one tracer, when it is not what is explored
IdleTracer ==
    /\ tracer = [destination |-> Dst, only_changes |-> TRUE, history |-> <<>>,
                 running |-> FALSE, dports |-> NoValue, cnames |-> <<>>,
                 failcount |-> 0, backoff_until |-> NoValue,
                 traceroute |-> FALSE, shutdown |-> FALSE,
                 stopped |-> FALSE]
    /\ task = [pc |-> "none", trace_interval |-> TRACE_INTERVAL, last |-> NoValue,
               dports_last |-> NoValue, start |-> 0, pending |-> "",
               iterations |-> 0, it |-> NoIteration,
               iter |-> [backoff |-> NoValue, probed |-> FALSE, hlen |-> 0, n |-> 0],
               acct |-> [n |-> 0, at |-> 0, reached |-> FALSE, before |-> 0]]
    /\ now = 0

\* node_info's module state, lines 39-40
InitCache ==
    /\ hop_cache = <<>>
    /\ hop_cache_expire = <<>>
    /\ calls = <<>>
    /\ returned = [n |-> 0, last |-> Return("", 0, 0, 0, FALSE, NoInfo)]
    /\ looked_up = [ip \in Hops |-> ""]

\* no call of the sampler was made yet
InitUnits ==
    /\ sampler = [ipv4_only |-> FALSE, path |-> "", gathered |-> {}, pc |-> "idle",
                  hosts |-> {}]
    /\ resolve_dict = <<>>
    /\ recorded = [n |-> 0, ip |-> "", before |-> <<>>, full |-> FALSE, evicted |-> {},
                   latest |-> [ip \in LoggedIps |-> <<>>]]
    /\ troute = [pc |-> "unloaded", platform |-> "", IS_PRIVILEGED |-> FALSE,
                 system |-> "", implementation |-> "", ipv6 |-> FALSE,
                 privileged |-> NoValue, capabilities |-> {}]
    /\ cycle = [cycle_protocols |-> NoValue, capabilities |-> {}, chosen |-> <<>>]
    /\ child = [n |-> 0, returncode |-> 0, raised |-> FALSE]
    /\ enrich = [handler |-> "running", n |-> 0, ip |-> None, registry |-> "",
                 result |-> NoValue, raised |-> "", from_cache |-> FALSE,
                 hop_cache |-> {}]
    /\ roa = [file |-> NoValue, day |-> 0, checker |-> NoValue,
              last |-> [n |-> 0, file0 |-> NoValue, raised |-> FALSE,
                        downloaded |-> FALSE]]
    /\ race = [pc |-> "idle", ip |-> "", names |-> <<>>, stored |-> FALSE, old |-> <<>>,
               looked |-> [n |-> 0, ip |-> "", names |-> <<>>, len |-> 0,
                           rerecording |-> FALSE, old |-> <<>>, new |-> <<>>]]

InitFleet ==
    /\ tracers = <<>>
    /\ active_tracers = <<>>
    /\ sup = [pc |-> "sleep", snap |-> <<>>, active_destinations |-> {},
              tracer |-> 0, i |-> 1, j |-> 1, removed |-> <<>>, stopping |-> 0,
              tick |-> 0, created |-> 0, fleet0 |-> <<>>,
              prev_items |-> {}, prev_complete |-> FALSE, cancelled |-> FALSE]
    /\ ws = [posted |-> FALSE, removed_tracers |-> <<>>, posts |-> 0]
    /\ clock = 1
    /\ subs = [s \in AllSubs |->
                 [pc |-> "off", processed |-> [d \in Dests |-> <<>>],
                  all |-> <<>>, ai |-> 1, rlist |-> <<>>, ri |-> 1,
                  pend |-> NoRec, frames |-> <<>>,
                  f0 |-> 0, tick_post |-> 0, keys0 |-> {}]]

\* the supervisor and its tracers
NextSup ==
    \/ SupTick(Snapshots) /\ UNCHANGED <<tracer_vars, now, cache_vars, unit_vars>>
    \/ SupAfterStart /\ UNCHANGED <<tracer_vars, now, cache_vars, unit_vars>>
    \/ SupAfterStop /\ UNCHANGED <<tracer_vars, now, cache_vars, unit_vars>>
    \/ \E t \in 1..MaxTracers : t <= Len(tracers) /\ TracerEnd(t, MaxRecords) /\ UNCHANGED <<tracer_vars, now, cache_vars, unit_vars>>

\* the fleet as constructed, around an idle tracer object
InitSup == InitFleet /\ IdleTracer /\ InitCache /\ InitUnits

SpecSup == InitSup /\ [][NextSup]_vars

\* the supervisor and its tracers, and the cancellation of the supervisor
NextShutdown ==
    \/ SupTick(Snapshots) /\ UNCHANGED <<tracer_vars, now, cache_vars, unit_vars>>
    \/ SupAfterStart /\ UNCHANGED <<tracer_vars, now, cache_vars, unit_vars>>
    \/ SupAfterStop /\ UNCHANGED <<tracer_vars, now, cache_vars, unit_vars>>
    \/ \E t \in 1..MaxTracers : t <= Len(tracers) /\ TracerEnd(t, MaxRecords) /\ UNCHANGED <<tracer_vars, now, cache_vars, unit_vars>>
    \/ SupCancel /\ UNCHANGED <<tracer_vars, now, cache_vars, unit_vars>>
    \/ SupShutdownDone /\ UNCHANGED <<tracer_vars, now, cache_vars, unit_vars>>

SpecShutdown == InitSup /\ [][NextShutdown]_vars

\* the supervisor, its tracers and the publisher's subscriber handlers
NextPub ==
    \/ SupTick(PubSnapshots) /\ UNCHANGED <<tracer_vars, now, cache_vars, unit_vars>>
    \/ SupAfterStart /\ UNCHANGED <<tracer_vars, now, cache_vars, unit_vars>>
    \/ SupAfterStop /\ UNCHANGED <<tracer_vars, now, cache_vars, unit_vars>>
    \/ \E t \in 1..MaxTracers : t <= Len(tracers) /\ TracerAppend(t, MaxRecords) /\ UNCHANGED <<tracer_vars, now, cache_vars, unit_vars>>
    \/ \E t \in 1..MaxTracers : t <= Len(tracers) /\ TracerEnd(t, MaxRecords) /\ UNCHANGED <<tracer_vars, now, cache_vars, unit_vars>>
    \/ \E s \in Subs : SubConnect(s) /\ UNCHANGED <<tracer_vars, now, cache_vars, unit_vars>>
    \/ \E s \in Subs : PubTick(s) /\ UNCHANGED <<tracer_vars, now, cache_vars, unit_vars>>
    \/ \E s \in Subs : PubSentActive(s, MaxFrames) /\ UNCHANGED <<tracer_vars, now, cache_vars, unit_vars>>
    \/ \E s \in Subs : PubSentRemoved(s, MaxFrames) /\ UNCHANGED <<tracer_vars, now, cache_vars, unit_vars>>

SpecPub == InitSup /\ [][NextPub]_vars

\* the same tasks, with room for two records of one tracer and their re-push
NextOrder ==
    \/ SupTick(PubSnapshots) /\ UNCHANGED <<tracer_vars, now, cache_vars, unit_vars>>
    \/ SupAfterStart /\ UNCHANGED <<tracer_vars, now, cache_vars, unit_vars>>
    \/ SupAfterStop /\ UNCHANGED <<tracer_vars, now, cache_vars, unit_vars>>
    \/ \E t \in 1..MaxTracers : t <= Len(tracers) /\ TracerAppend(t, MaxOrderRecords) /\ UNCHANGED <<tracer_vars, now, cache_vars, unit_vars>>
    \/ \E t \in 1..MaxTracers : t <= Len(tracers) /\ TracerEnd(t, MaxOrderRecords) /\ UNCHANGED <<tracer_vars, now, cache_vars, unit_vars>>
    \/ \E s \in Subs : SubConnect(s) /\ UNCHANGED <<tracer_vars, now, cache_vars, unit_vars>>
    \/ \E s \in Subs : PubTick(s) /\ UNCHANGED <<tracer_vars, now, cache_vars, unit_vars>>
    \/ \E s \in Subs : PubSentActive(s, MaxOrderFrames) /\ UNCHANGED <<tracer_vars, now, cache_vars, unit_vars>>
    \/ \E s \in Subs : PubSentRemoved(s, MaxOrderFrames) /\ UNCHANGED <<tracer_vars, now, cache_vars, unit_vars>>

SpecOrder == InitSup /\ [][NextOrder]_vars

\* one destination coming and going
SendSnapshots == SnapshotsOver({"8.8.8.8"}, {<<"443">>})

\* two subscribers, whose sends can fail
NextSend ==
    \/ sup.tick < MaxSendTicks /\ SupTick(SendSnapshots) /\ UNCHANGED <<tracer_vars, now, cache_vars, unit_vars>>
    \/ SupAfterStart /\ UNCHANGED <<tracer_vars, now, cache_vars, unit_vars>>
    \/ SupAfterStop /\ UNCHANGED <<tracer_vars, now, cache_vars, unit_vars>>
    \/ \E t \in 1..MaxTracers : t <= Len(tracers) /\ TracerAppend(t, MaxSendRecords) /\ UNCHANGED <<tracer_vars, now, cache_vars, unit_vars>>
    \/ \E t \in 1..MaxTracers : t <= Len(tracers) /\ TracerEnd(t, MaxSendRecords) /\ UNCHANGED <<tracer_vars, now, cache_vars, unit_vars>>
    \/ \E s \in AllSubs : SubConnect(s) /\ UNCHANGED <<tracer_vars, now, cache_vars, unit_vars>>
    \/ \E s \in AllSubs : PubTick(s) /\ UNCHANGED <<tracer_vars, now, cache_vars, unit_vars>>
    \/ \E s \in AllSubs : PubSentActive(s, MaxSendFrames) /\ UNCHANGED <<tracer_vars, now, cache_vars, unit_vars>>
    \/ \E s \in AllSubs : PubSentRemoved(s, MaxSendFrames) /\ UNCHANGED <<tracer_vars, now, cache_vars, unit_vars>>
    \/ \E s \in AllSubs : SendFails(s) /\ UNCHANGED <<tracer_vars, now, cache_vars, unit_vars>>

SpecSend == InitSup /\ [][NextSend]_vars

\* the supervisor with one destination coming and going, its tracers, and one
\* subscriber whose sends succeed
NextLive ==
    \/ sup.tick < MaxLiveTicks /\ SupTick(SendSnapshots) /\ UNCHANGED <<tracer_vars, now, cache_vars, unit_vars>>
    \/ SupAfterStart /\ UNCHANGED <<tracer_vars, now, cache_vars, unit_vars>>
    \/ SupAfterStop /\ UNCHANGED <<tracer_vars, now, cache_vars, unit_vars>>
    \/ \E t \in 1..MaxTracers : t <= Len(tracers) /\ TracerAppend(t, MaxLiveRecords) /\ UNCHANGED <<tracer_vars, now, cache_vars, unit_vars>>
    \/ \E t \in 1..MaxTracers : t <= Len(tracers) /\ TracerEnd(t, MaxLiveRecords) /\ UNCHANGED <<tracer_vars, now, cache_vars, unit_vars>>
    \/ \E s \in Subs : SubConnect(s) /\ UNCHANGED <<tracer_vars, now, cache_vars, unit_vars>>
    \/ \E s \in Subs : PubTick(s) /\ UNCHANGED <<tracer_vars, now, cache_vars, unit_vars>>
    \/ \E s \in Subs : PubSentActive(s, MaxLiveFrames) /\ UNCHANGED <<tracer_vars, now, cache_vars, unit_vars>>
    \/ \E s \in Subs : PubSentRemoved(s, MaxLiveFrames) /\ UNCHANGED <<tracer_vars, now, cache_vars, unit_vars>>

\* what the event loop guarantees of the tasks: a sleep that is over is
\* resumed (main_loop's 50 ms stagger, the handler's WS_PUBLISH_INTERVAL, the
\* sleep of a tracer that was stopped, the stop() that awaits its task), and
\* a send that succeeds returns.  Nothing is asked of the arrival of
\* snapshots, of probes or of connections.
LiveFairness ==
    /\ WF_vars(SupAfterStart /\ UNCHANGED <<tracer_vars, now, cache_vars, unit_vars>>)
    /\ WF_vars(SupAfterStop /\ UNCHANGED <<tracer_vars, now, cache_vars, unit_vars>>)
    /\ \A t \in 1..MaxTracers :
          WF_vars(t <= Len(tracers) /\ TracerEnd(t, MaxLiveRecords) /\ UNCHANGED <<tracer_vars, now, cache_vars, unit_vars>>)
    /\ \A s \in Subs :
          /\ WF_vars(PubTick(s) /\ UNCHANGED <<tracer_vars, now, cache_vars, unit_vars>>)
          /\ WF_vars(PubSentActive(s, MaxLiveFrames) /\ UNCHANGED <<tracer_vars, now, cache_vars, unit_vars>>)
          /\ WF_vars(PubSentRemoved(s, MaxLiveFrames) /\ UNCHANGED <<tracer_vars, now, cache_vars, unit_vars>>)

SpecLive == InitSup /\ [][NextLive]_vars /\ LiveFairness

\* one tracer's task, with stop(), cancellation and dports updates around it
NextTracer ==
    \/ Start(TraceIntervals) /\ UNCHANGED <<sup_vars, cache_vars, unit_vars>>
    \/ Begin /\ UNCHANGED <<sup_vars, cache_vars, unit_vars>>
    \/ ProbeDone(ProbeResults) /\ UNCHANGED <<sup_vars, cache_vars, unit_vars>>
    \/ SleepDone(MaxIterations) /\ UNCHANGED <<sup_vars, cache_vars, unit_vars>>
    \/ Stop /\ UNCHANGED <<sup_vars, cache_vars, unit_vars>>
    \/ Cancel /\ UNCHANGED <<sup_vars, cache_vars, unit_vars>>
    \/ SetDports /\ UNCHANGED <<sup_vars, cache_vars, unit_vars>>

\* one tracer as constructed, with any only_changes and cnames
InitOne == InitFleet /\ InitTracer /\ InitCache /\ InitUnits

SpecTracer == InitOne /\ [][NextTracer]_vars

\* one tracer's task whose probes mostly fail, over more iterations and with
\* another trace_interval than the default
NextBackoff ==
    \/ Start(BackoffIntervals) /\ UNCHANGED <<sup_vars, cache_vars, unit_vars>>
    \/ Begin /\ UNCHANGED <<sup_vars, cache_vars, unit_vars>>
    \/ ProbeDone(BackoffResults) /\ UNCHANGED <<sup_vars, cache_vars, unit_vars>>
    \/ SleepDone(MaxBackoffIterations) /\ UNCHANGED <<sup_vars, cache_vars, unit_vars>>
    \/ Stop /\ UNCHANGED <<sup_vars, cache_vars, unit_vars>>
    \/ Cancel /\ UNCHANGED <<sup_vars, cache_vars, unit_vars>>

SpecBackoff == InitOne /\ [][NextBackoff]_vars

\* one tracer's task, the exit code of each probe's child followed
NextExit ==
    \/ Start({TRACE_INTERVAL}) /\ UNCHANGED <<sup_vars, cache_vars, unit_vars>>
    \/ Begin /\ UNCHANGED <<sup_vars, cache_vars, unit_vars>>
    \/ ProbeExit /\ UNCHANGED <<sup_vars, cache_vars, sampler, resolve_dict, recorded, troute, cycle, enrich, roa, race>>
    \/ SleepDone(MaxExitIterations) /\ UNCHANGED <<sup_vars, cache_vars, unit_vars>>
    \/ Stop /\ UNCHANGED <<sup_vars, cache_vars, unit_vars>>
    \/ Cancel /\ UNCHANGED <<sup_vars, cache_vars, unit_vars>>

SpecExit == InitOne /\ [][NextExit]_vars

\* calls of active_remote_hosts, one after the other
NextSampler ==
    \/ SampleNative /\ UNCHANGED <<sup_vars, tracer_vars, now, cache_vars, resolve_dict, recorded, troute, cycle, child, enrich, roa, race>>
    \/ SampleNetstat /\ UNCHANGED <<sup_vars, tracer_vars, now, cache_vars, resolve_dict, recorded, troute, cycle, child, enrich, roa, race>>

SpecSampler == InitSup /\ [][NextSampler]_vars

\* the reader thread working through the DNS log
NextStore ==
    \/ ReaderRecord /\ UNCHANGED <<sup_vars, tracer_vars, now, cache_vars, sampler, troute, cycle, child, enrich, roa, race>>

SpecStore == InitSup /\ [][NextStore]_vars

\* the traceroute module, imported and then asked for its capabilities
NextTroute ==
    \/ ImportTraceroute /\ UNCHANGED <<sup_vars, tracer_vars, now, cache_vars, sampler, resolve_dict, recorded, cycle, child, enrich, roa, race>>
    \/ CallGetTraceroute /\ UNCHANGED <<sup_vars, tracer_vars, now, cache_vars, sampler, resolve_dict, recorded, cycle, child, enrich, roa, race>>
    \/ CallCapabilities /\ UNCHANGED <<sup_vars, tracer_vars, now, cache_vars, sampler, resolve_dict, recorded, cycle, child, enrich, roa, race>>

SpecTroute == InitSup /\ [][NextTroute]_vars

\* successive cycle_protocol calls of one tracer
NextCycle ==
    \/ CycleProtocol /\ UNCHANGED <<sup_vars, tracer_vars, now, cache_vars, sampler, resolve_dict, recorded, troute, child, enrich, roa, race>>

SpecCycle == InitSup /\ [][NextCycle]_vars

\* hop_info calls, as the subscriber handlers make them, and time
NextCache ==
    \/ HopInfoCall /\ UNCHANGED <<sup_vars, tracer_vars, unit_vars>>
    \/ HopInfoResume /\ UNCHANGED <<sup_vars, tracer_vars, unit_vars>>
    \/ Tick /\ UNCHANGED <<sup_vars, tracer_vars, unit_vars>>

SpecCache == InitSup /\ [][NextCache]_vars

\* one handler's enrichment calls, one at a time
NextEnrich ==
    \/ EnrichCall /\ UNCHANGED <<sup_vars, tracer_vars, now, cache_vars, sampler, resolve_dict, recorded, troute, cycle, child, roa, race>>
    \/ EnrichResume /\ UNCHANGED <<sup_vars, tracer_vars, now, cache_vars, sampler, resolve_dict, recorded, troute, cycle, child, roa, race>>
    \/ EnrichReconnect /\ UNCHANGED <<sup_vars, tracer_vars, now, cache_vars, sampler, resolve_dict, recorded, troute, cycle, child, roa, race>>

SpecEnrich == InitSup /\ [][NextEnrich]_vars

\* the program started on one day and another, around its vrps.json
NextRoa ==
    \/ Construct /\ UNCHANGED <<sup_vars, tracer_vars, now, cache_vars, sampler, resolve_dict, recorded, troute, cycle, child, enrich, race>>
    \/ NextDay /\ UNCHANGED <<sup_vars, tracer_vars, now, cache_vars, sampler, resolve_dict, recorded, troute, cycle, child, enrich, race>>

SpecRoa == InitSup /\ [][NextRoa]_vars

\* the reader thread, statement by statement, and lookups beside it
NextRace ==
    \/ ReaderBegin /\ UNCHANGED <<sup_vars, tracer_vars, now, cache_vars, sampler, recorded, troute, cycle, child, enrich, roa>>
    \/ ReaderEvict /\ UNCHANGED <<sup_vars, tracer_vars, now, cache_vars, sampler, recorded, troute, cycle, child, enrich, roa>>
    \/ ReaderSet /\ UNCHANGED <<sup_vars, tracer_vars, now, cache_vars, sampler, recorded, troute, cycle, child, enrich, roa>>
    \/ LookupCall /\ UNCHANGED <<sup_vars, tracer_vars, now, cache_vars, sampler, recorded, troute, cycle, child, enrich, roa>>

SpecRace == InitSup /\ [][NextRace]_vars

\* ------------------------------------------------------------- supervisor claims

\* the supervisor has posted (active, removed) and sleeps until the next tick
TickPosted == sup.pc = "sleep" /\ sup.tick >= 1

\* C1: when a tick posts (active, removed), every tracer that was in the
\* fleet at the start of the tick and whose destination is absent from the
\* snapshot has been stopped and is in the tick's removed list, and no
\* tracer left in the active fleet has a destination outside the snapshot.
C1_AbsentAreRemoved ==
    TickPosted =>
        /\ \A t \in Range(sup.fleet0) :
               NotInSnapshot(tracers[t].destination, sup.snap) =>
                   /\ t \in Range(sup.removed)
                   /\ ~tracers[t].running
                   /\ tracers[t].task = "done"
        /\ \A t \in Range(active_tracers) :
               tracers[t].destination \in SnapKeys(sup.snap)

\* C7: after a tick, each tracer that was running at the start of the tick
\* and whose destination is in the snapshot has the snapshot's port value of
\* its own destination as dports; and no tracer's dports is ever written
\* from the port value of another destination.
C7_DportsFollowSnapshot ==
    /\ TickPosted =>
           \A t \in Range(sup.fleet0) :
               tracers[t].destination \in SnapKeys(sup.snap) =>
                   tracers[t].dports =
                       sup.snap[SnapGet(sup.snap, tracers[t].destination)].ports
    /\ \A t \in DOMAIN tracers : tracers[t].dports_from = tracers[t].destination

\* the tick that just posted got the same snapshot as the tick before it,
\* and the tick before it left no tracer outside that snapshot in the fleet
SameSnapshotAgain ==
    /\ TickPosted
    /\ sup.tick >= 2
    /\ SnapItems(sup.snap) = sup.prev_items
    /\ sup.prev_complete

\* C8: a tick whose snapshot equals the previous tick's (the previous tick
\* having completed its removals) creates no tracer, stops none, posts an
\* empty removed list and leaves the fleet holding the same tracer objects,
\* all still running.
C8_UnchangedSnapshotIsIdempotent ==
    SameSnapshotAgain =>
        /\ sup.created = 0
        /\ sup.removed = <<>>
        /\ active_tracers = sup.fleet0
        /\ \A t \in Range(active_tracers) :
               tracers[t].running /\ tracers[t].task = "loop"

\* C8 witness: an unchanged snapshot met a fleet of two running tracers
C8_Witness ==
    /\ SameSnapshotAgain
    /\ Len(active_tracers) = 2
    /\ Dests \subseteq SnapKeys(sup.snap)

\* ------------------------------------------------------------- publisher claims

\* the new=false frames referencing d that subscriber s was sent
ClosingFrames(s, d) ==
    {k \in DOMAIN subs[s].frames :
        /\ subs[s].frames[k].kind = "trace"
        /\ ~subs[s].frames[k].new
        /\ subs[s].frames[k].destination = d}

\* those sent in the publisher tick s began last
ClosingFramesInTick(s, d) == {k \in ClosingFrames(s, d) : k > subs[s].f0}

\* those sent since update_tracers was last called
ClosingFramesSincePost(s, d) ==
    {k \in ClosingFrames(s, d) : subs[s].frames[k].post = ws.posts}

\* subscriber s has completed a publisher tick that began after the
\* removed list now posted was posted
TickedSincePost(s) ==
    /\ ws.posted
    /\ subs[s].pc = "sleep"
    /\ subs[s].tick_post = ws.posts

\* C2 as stated: once a subscriber has completed a publisher tick after a
\* removal was posted, it has received exactly one new=false frame for each
\* removed destination since the post, and the destination is not a key of
\* its publication map.
C2_ExactlyOneClosingFrame ==
    \A s \in Subs :
        TickedSincePost(s) =>
            \A t \in Range(ws.removed_tracers) :
                LET d == tracers[t].destination IN
                /\ Cardinality(ClosingFramesSincePost(s, d)) = 1
                /\ ~IsKey(subs[s].processed, d)

\* C2 amended: in every publisher tick, for every tracer of the removed list
\* the tick iterates: if its destination was a key of the subscriber's map
\* when the removal step began, exactly one new=false frame referencing it
\* is sent in that tick, carrying the tracer's last history entry;
\* otherwise none is sent; and after the tick the destination is not a key.
C2_ClosingFrameIffPublished ==
    \A s \in Subs :
        subs[s].pc = "sleep" =>
            \A t \in Range(subs[s].rlist) :
                LET d  == tracers[t].destination
                    cf == ClosingFramesInTick(s, d)
                IN  /\ Cardinality(cf) = (IF d \in subs[s].keys0 THEN 1 ELSE 0)
                    /\ \A k \in cf :
                           /\ subs[s].frames[k].start = Last(tracers[t].history).start
                           /\ subs[s].frames[k].sentinel
                    /\ ~IsKey(subs[s].processed, d)

\* C2 witness: a tick has sent a closing frame for a removed destination
C2_Witness ==
    \E s \in Subs :
        /\ subs[s].pc = "sleep"
        /\ \E t \in Range(subs[s].rlist) :
               /\ tracers[t].destination \in subs[s].keys0
               /\ ClosingFramesInTick(s, tracers[t].destination) # {}

\* C3: on one connection a trace record, identified by its dedupe key
\* (start_time, destination), is pushed with new=true at most once.
C3_NewAtMostOnce ==
    \A s \in Subs :
        \A a, b \in DOMAIN subs[s].frames :
            LET fa == subs[s].frames[a]
                fb == subs[s].frames[b]
            IN  (/\ a # b
                 /\ fa.kind = "trace" /\ fb.kind = "trace"
                 /\ fa.new /\ fb.new
                 /\ fa.destination = fb.destination)
                => fa.start # fb.start

\* ------------------------------------------------------------- claims: one tracer

\* the task of the tracer is over, after at least one iteration of its loop:
\* _loop returned, or the task was cancelled
TaskEnded == task.pc \in {"done", "cancelled"} /\ task.iterations >= 1

IsSentinel(rec, tr) ==
    /\ rec.trace = <<>>
    /\ rec.change
    /\ rec.duration = 0
    /\ rec.cnames = tr.cnames

\* C4: whenever the tracer's task has ended, by a clean stop() or by
\* cancellation, the last entry of its history is the sentinel: empty hops,
\* change true, duration 0, cnames equal to the tracer's cnames.
C4_SentinelOnTaskEnd ==
    TaskEnded =>
        /\ tracer.history # <<>>
        /\ IsSentinel(Last(tracer.history), tracer)

\* the ports of two dports values are the same set (both unset, or both set
\* with the same elements in any order)
SamePortSet(a, b) ==
    \/ a = NoValue /\ b = NoValue
    \/ a # NoValue /\ b # NoValue /\ Range(a[1]) = Range(b[1])

\* C5: for every trace that passes the filter rules, change is true iff it
\* is the first accepted trace, or its merged hops differ from the previously
\* accepted hops, or its port set differs from the port set at the previously
\* accepted trace; equal port sets (unset, or in another order) with equal
\* hops give change false.
C5_ChangeIffHopsOrPortSetDiffer ==
    task.it.n >= 1 =>
        (task.it.change <=>
            \/ task.it.n = 1
            \/ task.it.tr # task.it.prev_tr
            \/ ~SamePortSet(task.it.dports, task.it.prev_dports))

\* position k of the trace is what the merge law gives for it
MergeLawAt(k) ==
    task.it.tr[k] = (IF task.it.raw[k] # None THEN task.it.raw[k]
                     ELSE task.it.prev_tr[k])

\* C6: merge law. With a previous accepted trace P of the length of the new
\* filtered trace N, the trace used for change detection and for the history
\* is M with M[i] = N[i] where N[i] is not missing and P[i] where it is;
\* with another length, or no P, it is N. So when M equals P and the ports
\* are set and as they were at P, change is false and under only_changes no
\* history entry is made; an entry that is made carries M and the change
\* flag.
C6_MergeLaw ==
    task.it.n >= 1 =>
        /\ IF task.it.n >= 2 /\ Len(task.it.raw) = Len(task.it.prev_tr)
           THEN /\ Len(task.it.tr) = Len(task.it.raw)
                /\ \A k \in 1..Len(task.it.raw) : MergeLawAt(k)
           ELSE task.it.tr = task.it.raw
        /\ (/\ task.it.n >= 2
            /\ task.it.tr = task.it.prev_tr
            /\ task.it.dports # NoValue
            /\ task.it.dports = task.it.prev_dports)
               => ~task.it.change
        /\ task.it.appended <=> (~tracer.only_changes \/ task.it.change)
        /\ task.it.appended =>
              /\ task.it.hlen \in 1..Len(tracer.history)
              /\ tracer.history[task.it.hlen].trace = task.it.tr
              /\ tracer.history[task.it.hlen].change = task.it.change
        /\ ~task.it.appended => task.it.hlen = task.it.prev_hlen

\* a hop was lost in the second probe: the merge restores it from the
\* previous trace, nothing changed, and only_changes adds no history entry
C6_Witness ==
    /\ task.it.n = 2
    /\ task.it.prev_tr = <<"10.0.0.1", Dst>>
    /\ task.it.raw = <<None, Dst>>
    /\ task.it.tr = <<"10.0.0.1", Dst>>
    /\ task.it.dports = Some(<<"443", "80">>)
    /\ tracer.only_changes
    /\ ~task.it.change
    /\ ~task.it.appended
    /\ Len(tracer.history) = 1

\* ------------------------------------------------------------- claims: the hop cache

\* the places (bucket, position) of the expiry index that list ip
Listings(ip) ==
    {pl \in UNION {{<<e, k>> : k \in DOMAIN hop_cache_expire[e]} :
                        e \in DOMAIN hop_cache_expire} :
        hop_cache_expire[pl[1]][pl[2]] = ip}

\* C9: every ip that is a key of hop_cache is listed in exactly one bucket
\* of hop_cache_expire, exactly once, also after concurrent hop_info calls
\* for one uncached ip and after calls with different cache_ttl.
C9_OneExpiryEntryPerKey ==
    \A ip \in DOMAIN hop_cache : Cardinality(Listings(ip)) = 1

\* C10: hop_info never returns a record from the cache whose expiry time is
\* before the time of the call: the sweep of the call has removed every
\* record whose bucket expired, and the read follows it in the same step.
C10_NoExpiredHit ==
    returned.last.hit => returned.last.result.expires >= returned.last.at

\* a call swept an expired record out and returned another one from the
\* cache, in the last second of that one's life
C10_Witness ==
    /\ returned.last.hit
    /\ returned.last.swept >= 1
    /\ returned.last.result.expires = returned.last.at
    /\ returned.last.at >= 2

\* ------------------------------------------------------------- claims: one tracer (2)

\* C11: the entries of a tracer's history, the final sentinel included, are
\* in non-decreasing order of start: every record's start is at least the
\* start of the record appended before it.
C11_HistoryInStartOrder ==
    \A k \in 1..(Len(tracer.history) - 1) :
        tracer.history[k].start <= tracer.history[k + 1].start

\* two accepted traces of successive iterations and then the sentinel
C11_Witness ==
    /\ Len(tracer.history) = 3
    /\ task.pc = "done"
    /\ tracer.history[1].trace # <<>>
    /\ tracer.history[2].trace # <<>>
    /\ tracer.history[1].start < tracer.history[2].start
    /\ tracer.history[2].start < tracer.history[3].start
    /\ IsSentinel(tracer.history[3], tracer)

\* C12: failure accounting, for the trace_interval the tracer was started
\* with: a probe result without the destination adds one to failcount and,
\* when failcount is then above 1, sets backoff_until to the time of the
\* accounting plus trace_interval * failcount; a result with the destination
\* sets failcount to 0 and clears backoff_until.
C12_FailureAccounting ==
    task.acct.n >= 1 =>
        IF task.acct.reached
        THEN tracer.failcount = 0 /\ tracer.backoff_until = NoValue
        ELSE /\ tracer.failcount = task.acct.before + 1
             /\ tracer.failcount > 1 =>
                    tracer.backoff_until =
                        Some(task.acct.at + task.trace_interval * tracer.failcount)

\* the iteration that is under way began while the back-off it found was set
\* and in the future
BackoffIteration ==
    /\ task.pc \in {"probe", "sleep"}
    /\ task.iter.backoff # NoValue
    /\ task.start < task.iter.backoff[1]

\* what holds all through an iteration that began in back-off
QuietIteration ==
    /\ task.pc = "sleep"
    /\ task.pending = ""
    /\ ~task.iter.probed
    /\ ~tracer.traceroute
    /\ Len(tracer.history) = task.iter.hlen
    /\ task.it.n = task.iter.n
    /\ tracer.backoff_until = task.iter.backoff

\* C20: an iteration that begins while backoff_until is set and in the
\* future starts no probe process and submits nothing to the probe worker;
\* its empty result is filtered (nothing accepted, nothing appended), the
\* loop sleeps, and it goes on only when trace_interval has passed.
C20_BackoffSkipsProbe ==
    /\ [](BackoffIteration => QuietIteration)
    /\ [][BackoffIteration /\ task'.pc \in {"probe", "sleep", "done"} /\ task' # task
            => now' = now + task.trace_interval]_vars

\* after two failed probes the third iteration finds the back-off and sleeps
C20_Witness ==
    /\ BackoffIteration
    /\ QuietIteration
    /\ tracer.running
    /\ tracer.failcount = 2
    /\ task.iterations = 3
    /\ task.acct.n = 2

\* ------------------------------------------------------------- claims: the sampler

\* C13: a snapshot that active_remote_hosts returns, from the native path or
\* from the netstat fallback, has only keys that are valid IPs (IPv4 when
\* ipv4_only is set), none of them 127.0.0.1 or ::1, none starting with
\* fe80: or ::ffff; and when a key that is kept is no valid IP the call
\* raises and returns nothing.
C13_SnapshotKeysAreRemoteIps ==
    /\ sampler.pc = "returned" =>
          \A k \in sampler.hosts :
              /\ IpVersion(k) \in {4, 6}
              /\ sampler.ipv4_only => IpVersion(k) = 4
              /\ k \notin {"127.0.0.1", "::1"}
              /\ k \notin {"fe80::1", "::ffff:10.0.0.1"}
    /\ ("localhost" \in sampler.gathered /\ sampler.pc # "idle") =>
          sampler.pc = "raised"

\* the fallback gathered loopback, link-local and mapped addresses around a
\* remote one, with ipv4_only: the snapshot has the remote one alone
C13_Witness ==
    /\ sampler.pc = "returned"
    /\ sampler.path = "netstat"
    /\ sampler.ipv4_only
    /\ sampler.gathered = {"8.8.8.8", "127.0.0.1", "2001:db8::1", "fe80::1"}
    /\ sampler.hosts = {"8.8.8.8"}

\* ------------------------------------------------------------- claims: the publisher (2)

\* the positions of subscriber s's frames that hold the text clear_cache
ClearCacheFrames(s) ==
    {k \in DOMAIN subs[s].frames : subs[s].frames[k].kind = "clear_cache"}

\* C14: on a subscriber's connection the first frame sent is the text
\* clear_cache, it is sent once, and no trace frame goes out before it: as
\* soon as the handler is past its first send, frame 1 is clear_cache and no
\* other frame is.
C14_ClearCacheFirstAndOnce ==
    \A s \in Subs :
        /\ subs[s].pc \in {"off", "hello"} => subs[s].frames = <<>>
        /\ subs[s].pc \notin {"off", "hello"} => ClearCacheFrames(s) = {1}

\* a subscriber got clear_cache, then trace frames of two publisher ticks
C14_Witness ==
    \E s \in Subs :
        /\ Len(subs[s].frames) >= 3
        /\ subs[s].frames[1].kind = "clear_cache"
        /\ subs[s].frames[2].kind = "trace"
        /\ subs[s].frames[3].kind = "trace"
        /\ subs[s].f0 >= 2

\* ------------------------------------------------------------- claims: the reverse-name store

\* C15: recording an ip while the store is at capacity evicts the entry at
\* the least recently recorded end of the order (the re-recorded ip taken
\* out first), and never the most recently recorded one.
C15_EvictsLeastRecent ==
    (recorded.n >= 1 /\ recorded.full /\ Len(recorded.before) >= 2) =>
        /\ recorded.evicted = {recorded.before[1]}
        /\ recorded.before[Len(recorded.before)] \notin recorded.evicted

\* C16: after any sequence of record operations the store holds at most
\* max_items entries, each ip at most once, and lookup(ip) gives the names
\* of the latest record of ip when ip is stored and the empty list otherwise.
C16_BoundedAndLatest ==
    /\ Len(resolve_dict) <= MaxItems
    /\ \A j, k \in DOMAIN resolve_dict : resolve_dict[j].ip = resolve_dict[k].ip => j = k
    /\ \A ip \in LoggedIps :
          Lookup(resolve_dict, ip) =
              IF \E k \in DOMAIN resolve_dict : resolve_dict[k].ip = ip
              THEN recorded.latest[ip] ELSE <<>>

\* the store is full, an ip in it was recorded again with other names, and
\* an ip recorded before is gone
C16_Witness ==
    /\ Len(resolve_dict) = MaxItems
    /\ recorded.n >= MaxItems + 2
    /\ recorded.evicted # {}
    /\ Lookup(resolve_dict, recorded.ip) = <<"cdn.example", "www.example">>
    /\ \E ip \in LoggedIps : recorded.latest[ip] # <<>> /\ Lookup(resolve_dict, ip) = <<>>

\* ------------------------------------------------------------- claims: the traceroute wrapper

\* the caller counts as root when it says so or the module found so
AsRoot == troute.privileged = Some(TRUE) \/ troute.IS_PRIVILEGED

\* the matrix as stated: BSD/macOS and the default for any other platform
\* {icmp,udp,tcp,gre}; Linux {udp}, as root {icmp,udp,tcp}; Windows {icmp}
StatedCapabilities ==
    CASE troute.system = "Linux" ->
             IF AsRoot THEN {"icmp", "udp", "tcp"} ELSE {"udp"}
      [] troute.system = "Windows" -> {"icmp"}
      [] OTHER -> {"icmp", "udp", "tcp", "gre"}

\* C17: for every platform name, privilege level and address family,
\* get_traceroute(system) followed by capabilities(ipv6, privileged) returns
\* the stated matrix, intersected with {icmp,udp} for IPv6 targets.
C17_CapabilityMatrix ==
    troute.pc = "capabilities" =>
        troute.capabilities = IF troute.ipv6
                              THEN StatedCapabilities \cap {"icmp", "udp"}
                              ELSE StatedCapabilities

\* ------------------------------------------------------------- claims: the publisher (3)

\* the positions in a subscriber's frames where record k of tracer t went
\* out with new=true
NewFramesOf(s, t, k) ==
    {a \in DOMAIN subs[s].frames :
        /\ subs[s].frames[a].kind = "trace"
        /\ subs[s].frames[a].new
        /\ subs[s].frames[a].destination = tracers[t].destination
        /\ subs[s].frames[a].start = tracers[t].history[k].start}

\* C18: for one subscriber and one destination the new=true frames are
\* pushed in the order the records were appended to the tracer's history: no
\* later record of a tracer is pushed before an earlier record of it.
C18_NewFramesInHistoryOrder ==
    \A s \in Subs : \A t \in DOMAIN tracers :
        \A i, j \in DOMAIN tracers[t].history :
            i < j => \A a \in NewFramesOf(s, t, i), b \in NewFramesOf(s, t, j) : a < b

\* ------------------------------------------------------------- claims: one tracer (3)

\* hops as the filter rules name them: none at all or all missing, of length
\* max_ttl - 1, or with the last one missing
UnusableHops(hops) ==
    \/ hops = <<>>
    \/ \A k \in DOMAIN hops : hops[k] = None
    \/ Len(hops) = max_ttl - 1
    \/ hops[Len(hops)] = None

\* the records of a history that are not the sentinel
TraceRecords(tr) == SelectSeq(tr.history, LAMBDA rec : ~IsSentinel(rec, tr))

\* C19: no record of the history but the sentinel has hops that are all
\* missing or empty, of length max_ttl - 1 (63), or with a missing last hop;
\* and a probe result of one of these kinds appends no record and leaves
\* the previous accepted hops and the previous dports as they were.
C19_HistoryFilter ==
    /\ [](\A k \in DOMAIN tracer.history :
             IsSentinel(tracer.history[k], tracer)
             \/ ~UnusableHops(tracer.history[k].trace))
    /\ [][\A result \in ProbeResults :
             (UnusableHops(result) /\ ProbeDoneWith(result)) =>
                 /\ task'.last = task.last
                 /\ task'.dports_last = task.dports_last
                 /\ TraceRecords(tracer') = TraceRecords(tracer)]_vars

\* the first iteration's trace was appended, the second iteration's result
\* was filtered, and the loop sleeps with the first trace still the last one
C19_Witness ==
    /\ task.pc = "sleep"
    /\ task.acct.n = 2
    /\ task.it.n = 1
    /\ Len(tracer.history) = 1
    /\ tracer.history[1].start < task.start
    /\ task.last = Some(tracer.history[1].trace)
    /\ task.dports_last # tracer.dports

\* ------------------------------------------------------------- claims: protocol cycling

\* how often proto is in the sequence q
Occurrences(q, proto) == Cardinality({k \in DOMAIN q : q[k] = proto})

\* C21: the rotation holds every capability exactly once, and every window
\* of |capabilities| consecutive selections holds every capability exactly
\* once.
C21_RoundRobin ==
    cycle.cycle_protocols # NoValue =>
        LET n == Cardinality(cycle.capabilities)
        IN  /\ \A proto \in cycle.capabilities :
                  Occurrences(cycle.cycle_protocols[1], proto) = 1
            /\ \A k \in 1..(Len(cycle.chosen) - n + 1) :
                  \A proto \in cycle.capabilities :
                      Occurrences(SubSeq(cycle.chosen, k, k + n - 1), proto) = 1

\* ------------------------------------------------------------- claims: probe failures

\* C22: trace returns the parsed hops when the child exits with 0, -9 or
\* -15 and raises TracerouteError for every other exit code; when it raises,
\* the iteration appends no trace, counts as a failure, and the loop goes on
\* to its sleep and the next iteration.
C22_ExitCodeHandling ==
    [][\A hops \in ExitHops, returncode \in ReturnCodes :
          /\ returncode \in {0, -9, -15} =>
                 /\ ~TracerouteTrace(hops, returncode).raised
                 /\ TracerouteTrace(hops, returncode).result = hops
          /\ returncode \notin {0, -9, -15} =>
                 /\ TracerouteTrace(hops, returncode).raised
                 /\ ProbeExitWith(hops, returncode) =>
                        /\ TraceRecords(tracer') = TraceRecords(tracer)
                        /\ tracer'.failcount = tracer.failcount + 1
                        /\ tracer.running => task'.pc = "sleep"]_vars

\* a first iteration appended its trace, the second one's child exited with
\* 1, and the third iteration's probe is in flight
C22_Witness ==
    /\ child.raised
    /\ child.returncode = 1
    /\ child.n = 2
    /\ task.pc = "probe"
    /\ task.iterations = 3
    /\ tracer.failcount = 1
    /\ Len(tracer.history) = 1

\* ------------------------------------------------------------- claims: the hop cache (2)

\* the call schedules get_info for ip and awaits it
Schedules(ip) ==
    /\ Len(calls') = Len(calls) + 1
    /\ calls'[Len(calls')].ip = ip

\* C23: no record whose asn is '*' or 'NA' is in hop_cache; a hop_info call
\* for a hop whose last lookup was unresolved schedules a fresh get_info;
\* a call for a hop whose cached record has not expired returns that record
\* and schedules nothing.
C23_UnresolvedNotCached ==
    /\ [](\A ip \in DOMAIN hop_cache : hop_cache[ip].info.asn \notin {"*", "NA"})
    /\ [][\A ip \in Hops, cache_ttl \in CacheTtls :
             HopInfoCallWith(ip, cache_ttl) =>
                 /\ looked_up[ip] = "unresolved" => Schedules(ip)
                 /\ (ip \in DOMAIN hop_cache /\ hop_cache[ip].expires >= now) =>
                        /\ calls' = calls
                        /\ returned'.last.hit
                        /\ returned'.last.result = hop_cache[ip]]_vars

\* ------------------------------------------------------------- claims: stopping a tracer

\* stop() was called and the task it awaits is over: stop() has returned, or
\* has raised what the task raised
StopReturned == tracer.stopped /\ task.pc \in {"done", "failed", "cancelled"}

\* C24: when stop(), called at any point of the tracer's life, has returned,
\* the loop task has finished, running is false, no probe child of the
\* tracer is alive, and no record is appended to the history afterwards.
\* (That stop() returns at all rests on the event loop running the task; it
\* is what stop() leaves behind that is stated here.)
C24_StopLeavesTracerStopped ==
    /\ [](StopReturned => ~tracer.running /\ ~tracer.traceroute)
    /\ [][StopReturned => tracer'.history = tracer.history]_vars

\* ------------------------------------------------------------- claims: supervisor shutdown

\* C25: once the supervisor's task was cancelled, at whichever of its
\* suspension points, its loop has ended (the handler stops the tracers, or
\* is through), and when the handler is through every tracer that was
\* started is stopped: running false, its task over.
C25_CancelEndsLoopAndStopsTracers ==
    sup.cancelled =>
        /\ sup.pc \in {"shutdown", "ended"}
        /\ sup.pc = "ended" =>
               \A t \in DOMAIN tracers :
                   ~tracers[t].running /\ tracers[t].task # "loop"

\* ------------------------------------------------------------- claims: a failing send

\* C26: a send failure on one subscriber's connection ends that
\* subscriber's handler and discards its publication map, and nothing else:
\* the other subscribers' maps and frames, the fleet and every tracer's
\* history are as they were, and the ended handler sends nothing more.
C26_SendFailureIsLocal ==
    [][/\ \A s \in AllSubs :
            SendFails(s) =>
                /\ subs'[s].pc = "closed"
                /\ Keys(subs'[s].processed) = {}
                /\ \A o \in AllSubs \ {s} : subs'[o] = subs[o]
                /\ tracers' = tracers
                /\ active_tracers' = active_tracers
       /\ \A s \in AllSubs :
            subs[s].pc = "closed" => subs'[s] = subs[s]]_vars

\* the send of a record to ws1 failed, and ws2 was sent the same record
C26_Witness ==
    /\ subs["ws1"].pc = "closed"
    /\ Len(subs["ws1"].frames) = 1
    /\ subs["ws2"].pc = "sleep"
    /\ Len(subs["ws2"].frames) = 2
    /\ subs["ws2"].frames[2].new
    /\ Keys(subs["ws2"].processed) = {"8.8.8.8"}

\* ------------------------------------------------------------- claims: enrichment failures

\* C27: whatever the hop (public, private or missing) and whatever the registry,
\* WHOIS, reverse-DNS and TXT lookups raise, get_info returns a record and raises
\* nothing: the handler that asked goes on, the record has '*' in the registry
\* fields when the registry lookup failed, and such a record is not cached.
C27_EnrichmentNeverRaises ==
    [][\A lk \in Lookups :
         EnrichResumeWith(lk) =>
            /\ enrich'.handler = "running"
            /\ enrich'.raised = ""
            /\ enrich'.result # NoValue
            /\ (~is_private(enrich.ip) /\ lk.registry \notin RegistryFound) =>
                  /\ enrich'.result[1].asn = "*"
                  /\ enrich'.result[1].cidr = "*"
                  /\ enrich'.hop_cache = enrich.hop_cache]_vars

\* ------------------------------------------------------------- claims: the ROA dataset

FreshFile == roa.file # NoValue /\ roa.file[1].buildtime + VRPS_EXPIRE_DAYS > roa.day
StaleFile == roa.file # NoValue /\ ~FreshFile

\* C28: a local file built within 7 days is loaded without a download; a missing
\* file is downloaded and persisted, and the failure of that download is fatal;
\* with a local file older than 7 days whose re-download fails, the checker is
\* still constructed and serves roa_valid from the stale dataset of the file.
C28_RoaLoading ==
    [][\A download \in DownloadOutcomes :
         ConstructWith(download) =>
            /\ FreshFile => /\ roa'.checker = roa.file
                            /\ ~roa'.last.downloaded
                            /\ roa'.file = roa.file
            /\ (roa.file = NoValue /\ download = "ok") =>
                            /\ roa'.checker = Some(RemoteData(roa.day))
                            /\ roa'.file = Some(RemoteData(roa.day))
            /\ (roa.file = NoValue /\ download # "ok") =>
                            /\ roa'.checker = NoValue
                            /\ roa'.last.raised
            /\ (StaleFile /\ download # "ok") =>
                            /\ roa'.checker = roa.file
                            /\ \A r \in roa.file[1].roas :
                                  RoaValid(roa'.checker[1], r[1], r[2])]_vars

\* ------------------------------------------------------------- claims: the fleet after a tick

\* the tracers of the fleet that trace addr
TracersOf(addr) == {t \in Range(active_tracers) : tracers[t].destination = addr}

\* C29: after every supervisor tick each destination of the snapshot other than
\* the local egress IP has exactly one started tracer in the fleet, whose dports
\* is the snapshot's value for that destination and whose cnames is what the
\* reverse-name store held for it at creation (the store does not change here);
\* no tracer is ever created for the local egress IP.
C29_OneTracerPerDestination ==
    /\ \A t \in DOMAIN tracers : tracers[t].destination # LocalIp
    /\ TickPosted =>
          \A addr \in SnapKeys(sup.snap) \ {LocalIp} :
             /\ Cardinality(TracersOf(addr)) = 1
             /\ \A t \in TracersOf(addr) :
                   /\ tracers[t].running
                   /\ tracers[t].dports_from = addr
                   /\ tracers[t].dports = sup.snap[SnapGet(sup.snap, addr)].ports
                   /\ tracers[t].cnames = Lookup(resolve_dict, addr)

\* ------------------------------------------------------------- claims: the store and the reader thread

\* C30: a lookup(ip) that runs while the reader thread re-records an ip that is
\* already stored returns the old or the new chain of names, never the empty
\* list, and never sees the store with more than max_items entries.
C30_LookupDuringRerecord ==
    (race.looked.n >= 1 /\ race.looked.rerecording) =>
        /\ race.looked.names \in {race.looked.old, race.looked.new}
        /\ race.looked.names # <<>>
        /\ race.looked.len <= MaxItems

\* ------------------------------------------------------------- claims: the publisher (4)

\* the destinations that have a tracer in the active fleet
FleetDestinations == {tracers[t].destination : t \in Range(active_tracers)}

\* C31: no new=false (closing) frame is sent for a destination that has a
\* tracer in the active fleet when the frame goes out, also while a supervisor
\* tick that re-creates a tracer for a destination removed in the previous tick
\* is suspended with the previous removed list still posted.
C31_NoClosingFrameForActiveDestination ==
    [][\A s \in Subs :
         PubSentRemoved(s, MaxFrames) =>
            subs[s].pend.destination \notin FleetDestinations]_vars

\* ------------------------------------------------------------- claims: the fleet's destinations

\* C32: in every reachable state of the supervisor, whatever the sequence of
\* snapshots, no two tracers of the active fleet have the same destination.
C32_OneTracerPerDestinationInFleet ==
    \A a, b \in DOMAIN active_tracers :
        a # b => tracers[active_tracers[a]].destination
                    # tracers[active_tracers[b]].destination

\* a destination whose tracer was removed and stopped is in the snapshot
\* again and is traced by a new tracer
C32_Witness ==
    /\ TickPosted
    /\ \E old \in DOMAIN tracers, t \in Range(active_tracers) :
          /\ old \notin Range(active_tracers)
          /\ ~tracers[old].running
          /\ tracers[old].destination = tracers[t].destination

\* ------------------------------------------------------------- claims: the supervisor's assertion

\* C33: the assertion of line 82, that the removed list and the active fleet
\* share no tracer object, holds at the end of every tick, for every fleet and
\* every sequence of snapshots.
C33_RemovedDisjointFromFleet ==
    /\ sup.pc # "failed"
    /\ TickPosted => Range(sup.removed) \cap Range(active_tracers) = {}

\* a tick has removed a tracer and left another one in the fleet
C33_Witness ==
    /\ TickPosted
    /\ sup.removed # <<>>
    /\ active_tracers # <<>>
    /\ ws.removed_tracers = sup.removed

\* ------------------------------------------------------------- claims: the hop cache (3)

\* C34: a record inserted with expiry now + cache_ttl stays in hop_cache until
\* that expiry: no sweep of a hop_info call removes an ip while the expiry of
\* its most recent insertion has not passed, also when the ip was inserted
\* more than once.
C34_NoEarlySweep ==
    [][\A ip \in Hops, cache_ttl \in CacheTtls :
         HopInfoCallWith(ip, cache_ttl) =>
            \A x \in DOMAIN hop_cache :
                ~Expired(hop_cache[x].expires, now) => x \in DOMAIN hop_cache']_vars

\* C35: every ip that is a key of hop_cache is listed in at least one bucket of
\* hop_cache_expire, the bucket of the expiry its record was inserted with
\* among them, so a later sweep removes the record once that bucket's expiry
\* has passed.
C35_EveryKeyListed ==
    \A ip \in DOMAIN hop_cache :
        /\ Listings(ip) # {}
        /\ \E pl \in Listings(ip) : pl[1] = hop_cache[ip].expires

\* an ip that two concurrent misses inserted is cached and listed in two
\* buckets, and a call has returned it from the cache
C35_Witness ==
    /\ returned.last.hit
    /\ returned.last.ip \in DOMAIN hop_cache
    /\ \E p, q \in Listings(returned.last.ip) : p[1] # q[1]


\* ------------------------------------------------------------- claims: back-off (2)

\* the length of the back-off period in force: from the accounting that set
\* it to backoff_until
BackoffPeriod(tr, tk) == tr.backoff_until[1] - tk.acct.at

\* C36: backoff_until is set only if failcount >= 2, and failcount = 0
\* implies backoff_until is unset; an iteration skipped because of back-off
\* changes neither failcount nor backoff_until; and a back-off period set
\* after a further failure is longer than the previous one.
C36_BackoffDiscipline ==
    /\ [](/\ tracer.backoff_until # NoValue => tracer.failcount >= 2
          /\ tracer.failcount = 0 => tracer.backoff_until = NoValue)
    /\ [][BackoffIteration => /\ tracer'.failcount = tracer.failcount
                              /\ tracer'.backoff_until = tracer.backoff_until]_vars
    /\ [][(/\ tracer.backoff_until # NoValue
           /\ tracer'.backoff_until # NoValue
           /\ task'.acct.n # task.acct.n)
            => /\ tracer'.failcount = tracer.failcount + 1
               /\ BackoffPeriod(tracer', task') > BackoffPeriod(tracer, task)]_vars

\* two failures set a back-off, an iteration was skipped for it, and a third
\* failure after it set a longer one
C36_Witness ==
    /\ tracer.failcount = 3
    /\ tracer.backoff_until = Some(task.acct.at + 3 * TRACE_INTERVAL)
    /\ task.acct.n = 3
    /\ task.iterations = 4
    /\ task.iter.backoff # NoValue
    /\ task.iter.probed


\* ------------------------------------------------------------- claims: the sentinel (2)

\* a record as the sentinel is described: empty hops and duration 0
EmptyRecord(rec) == rec.trace = <<>> /\ rec.duration = 0

\* C37: a tracer's history contains at most one sentinel record (empty
\* hops, duration 0), and once the sentinel is appended no further record is
\* ever appended to that history.
C37_SentinelOnceAndLast ==
    /\ [](\A k \in DOMAIN tracer.history :
             EmptyRecord(tracer.history[k]) => k = Len(tracer.history))
    /\ [][(tracer.history # <<>> /\ EmptyRecord(Last(tracer.history)))
            => tracer'.history = tracer.history]_vars

\* a trace was appended, the loop ended with the sentinel, and stop() has
\* returned after it
C37_Witness ==
    /\ task.pc = "done"
    /\ tracer.stopped
    /\ Len(tracer.history) = 2
    /\ ~EmptyRecord(tracer.history[1])
    /\ EmptyRecord(tracer.history[2])


\* ------------------------------------------------------------- claims: the publisher (3)

\* tracer t has a k-th record, and is in the fleet
InFleetRecord(t, k) ==
    /\ t \in DOMAIN tracers
    /\ k \in DOMAIN tracers[t].history
    /\ t \in Range(active_tracers)

\* the handler of s is running
Connected(s) == subs[s].pc \in {"hello", "sleep", "send_active", "send_removed"}

\* the k-th record of tracer t went to s in a frame with new=true
PushedNew(s, t, k) ==
    /\ t \in DOMAIN tracers
    /\ k \in DOMAIN tracers[t].history
    /\ \E f \in Range(subs[s].frames) :
          /\ f.kind = "trace"
          /\ f.new
          /\ f.start = tracers[t].history[k].start
          /\ f.destination = tracers[t].history[k].destination

\* the claim asks nothing more: the tracer has left the fleet, the handler
\* of s has ended, or s has been sent all the frames that are followed
Released(s, t) ==
    \/ t \notin Range(active_tracers)
    \/ ~Connected(s)
    \/ Len(subs[s].frames) >= MaxLiveFrames

\* C38: if a subscriber stays connected and its sends succeed, every record
\* appended to the history of a tracer that stays in the active fleet is
\* eventually pushed to that subscriber with new=true, including records
\* appended before the subscriber connected.
C38_EveryRecordEventuallyPushed ==
    \A s \in Subs, t \in 1..MaxTracers, k \in 1..(MaxLiveRecords + 1) :
        (InFleetRecord(t, k) /\ Connected(s)) ~> (PushedNew(s, t, k) \/ Released(s, t))

\* the first tracer made a record and is in the fleet; the subscriber was
\* sent it with new=true in the first send_traces round of its handler,
\* right after clear_cache: the record was there before that round began
C38_Witness ==
    /\ InFleetRecord(1, 1)
    /\ \E s \in Subs :
          /\ Connected(s)
          /\ PushedNew(s, 1, 1)
          /\ subs[s].f0 = 1
          /\ Len(subs[s].frames) = 2

====
